---- MODULE Spec2Model ----
(***************************************************************************)
(* pushpress-cli: the book-days step of the schedule-book flow (Spec),     *)
(* the booking outcome classifier (SpecClassify), clickByLabel             *)
(* (SpecClick), the run command with runFlow (SpecRun),                    *)
(* clusterSemanticsFields (SpecCluster), attachClassLabelsToSlots          *)
(* (SpecAttach), waitForLoginSuccess (SpecLogin), waitForStablePosition    *)
(* (SpecStable), all the poll loops under fairness (SpecPoll), the         *)
(* fill-credentials step (SpecFill) and NetworkCapture with runFlow's      *)
(* flushes (SpecCapture).  Each specification moves its own group of       *)
(* variables and leaves the others idle.                                   *)
(*                                                                         *)
(* Text is modelled as a sequence of one-character strings so that the     *)
(* substring tests of the flow (label.toLowerCase().includes(...)) are     *)
(* computed rather than assumed.  The page is the environment: what it     *)
(* shows (slots in the list, semantics nodes of a details view, popups     *)
(* that open on a click) is chosen nondeterministically where the code     *)
(* queries it.                                                             *)
(***************************************************************************)
EXTENDS Integers, Sequences, FiniteSets, TLC

\* ---------------------------------------------------------------- bounds
MaxDayTokens == 2     \* tokens in the --days parameter
MaxSlots == 2         \* time-matching slots the list shows for one day
MaxRunSlots == 2      \* slots selected over all the days of one run
MaxStatusNodes == 2   \* status/action nodes in a details view
MaxPopups == 1        \* popups one openSlotDetails call may follow
MaxScopeNodes == 3    \* aria-label nodes of a scope handed to the classifier
MaxFields == 3        \* fields handed to clusterSemanticsFields
MaxFieldY == 4        \* largest Y coordinate of a field
MaxFieldWidth == 2    \* largest width of a field (the height is 1)
MaxThreshold == 3     \* largest clustering threshold
MaxAttachSlots == 3   \* slots handed to attachClassLabelsToSlots
MaxClassLabels == 2   \* class labels handed to attachClassLabelsToSlots
MaxTimeout == 4       \* largest globalTimeout, in polling intervals
MaxPollTime == 1      \* longest a poll takes, in polling intervals
MaxStableTimeout == 8 \* largest timeoutMs of waitForStablePosition, in waits
MaxTopY == 2          \* largest top edge Y of the element, in half pixels
MaxFillFields == 3    \* fields findSemanticsTextFields answers
MaxCaptureSteps == 2  \* capture steps of the flow run
MaxResponses == 2     \* responses fired during the run
MaxCascade == 3       \* attempts of the cascade of clickBookingAction
MaxWaitTimeout == 3   \* largest timeoutMs of waitForDayButtons / waitForTimeSlots, in waits

\* ------------------------------------------------------------------ text
Undefined == "undefined"

\* an absent or empty --days parameter (the parameter is kept as characters)
NoDays == <<>>

UpperChars == <<"A","B","C","D","E","F","G","H","I","J","K","L","M","N","O","P","Q","R","S","T","U","V","W","X","Y","Z">>
LowerChars == <<"a","b","c","d","e","f","g","h","i","j","k","l","m","n","o","p","q","r","s","t","u","v","w","x","y","z">>

toLowerChar(c) ==
  IF \E i \in 1..26 : UpperChars[i] = c
  THEN LowerChars[CHOOSE i \in 1..26 : UpperChars[i] = c]
  ELSE c

toLowerCase(s) == [i \in 1..Len(s) |-> toLowerChar(s[i])]

includes(s, sub) ==
  \E i \in 0..(Len(s) - Len(sub)) : SubSeq(s, i + 1, i + Len(sub)) = sub

startsWith(s, p) == Len(s) >= Len(p) /\ SubSeq(s, 1, Len(p)) = p

Whitespace == {" "}

\* String.prototype.trim: the text between the first and the last character
\* that is not whitespace
trim(s) ==
  LET inked == {i \in 1..Len(s) : s[i] \notin Whitespace} IN
  IF inked = {} THEN <<>>
  ELSE SubSeq(s, CHOOSE i \in inked : \A j \in inked : i <= j,
                 CHOOSE i \in inked : \A j \in inked : i >= j)

without(s, chars) ==
  LET F[i \in 0..Len(s)] ==
        IF i = 0 THEN <<>>
        ELSE IF s[i] \in chars THEN F[i - 1] ELSE Append(F[i - 1], s[i])
  IN F[Len(s)]

anyIncludes(s, subs) == \E sub \in subs : includes(s, sub)

SeqsUpTo(S, n) == UNION {[1..k -> S] : k \in 0..n}

Range(s) == {s[i] : i \in 1..Len(s)}

\* The labels and parameter values of the model are named by strings; their
\* characters are what the text operations of the flow work on.
Spelling ==
     ("" :> <<>>)
  @@ ("mon" :> <<"m","o","n">>)
  @@ ("Wed" :> <<"W","e","d">>)
  @@ ("6:00 AM" :> <<"6",":","0","0"," ","A","M">>)
  @@ ("CrossFit" :> <<"C","r","o","s","s","F","i","t">>)
  @@ ("6:00 AM CrossFit" :> <<"6",":","0","0"," ","A","M"," ","C","r","o","s","s","F","i","t">>)
  @@ ("6:00 AM RESERVE SOON" :> <<"6",":","0","0"," ","A","M"," ","R","E","S","E","R","V","E"," ","S","O","O","N">>)
  @@ ("Reserve" :> <<"R","e","s","e","r","v","e">>)
  @@ ("Reserved" :> <<"R","e","s","e","r","v","e","d">>)
  @@ ("Join Waitlist" :> <<"J","o","i","n"," ","W","a","i","t","l","i","s","t">>)
  @@ ("Waitlist" :> <<"W","a","i","t","l","i","s","t">>)
  @@ ("Cancel Reservation" :> <<"C","a","n","c","e","l"," ","R","e","s","e","r","v","a","t","i","o","n">>)
  @@ ("Cancel Reservation (Waitlist)" :> <<"C","a","n","c","e","l"," ","R","e","s","e","r","v","a","t","i","o","n"," ","(","W","a","i","t","l","i","s","t",")">>)
  @@ ("Class Full" :> <<"C","l","a","s","s"," ","F","u","l","l">>)

chars(name) == Spelling[name]

\* normalizeTimeLabel: lower case, whitespace and dots removed
normalizeTimeLabel(value) == without(toLowerCase(value), Whitespace \cup {"."})

labelHasReserveSoon(label) ==
  includes(toLowerCase(chars(label)), <<"r","e","s","e","r","v","e"," ","s","o","o","n">>)

\* ------------------------------------------------------------- parseDays
normalizeDay(input) ==
  LET value == toLowerCase(trim(input)) IN
  IF value = <<>> THEN "null"
  ELSE IF startsWith(value, <<"s","u">>) THEN "sun"
  ELSE IF startsWith(value, <<"m","o">>) THEN "mon"
  ELSE IF startsWith(value, <<"t","u">>) THEN "tue"
  ELSE IF startsWith(value, <<"w","e">>) THEN "wed"
  ELSE IF startsWith(value, <<"t","h">>) THEN "thu"
  ELSE IF startsWith(value, <<"f","r">>) THEN "fri"
  ELSE IF startsWith(value, <<"s","a">>) THEN "sat"
  ELSE "null"

DaySeparators == {",", " "}

\* param.split(/[,\s]+/) followed by trim and filter(Boolean): the maximal
\* runs of characters that are not separators
splitDays(s) ==
  LET closed(state) ==
        IF state.part = <<>> THEN state.parts ELSE Append(state.parts, state.part)
      F[i \in 0..Len(s)] ==
        IF i = 0 THEN [part |-> <<>>, parts |-> <<>>]
        ELSE IF s[i] \in DaySeparators
             THEN [part |-> <<>>, parts |-> closed(F[i - 1])]
             ELSE [part |-> Append(F[i - 1].part, s[i]), parts |-> F[i - 1].parts]
  IN closed(F[Len(s)])

\* the loop of parseDays: a day is pushed unless it is null or already there
collectDays(parts) ==
  LET F[i \in 0..Len(parts)] ==
        IF i = 0 THEN <<>>
        ELSE LET normalized == normalizeDay(parts[i]) IN
             IF normalized # "null" /\ normalized \notin Range(F[i - 1])
             THEN Append(F[i - 1], normalized)
             ELSE F[i - 1]
  IN F[Len(parts)]

parseDays(param) ==
  IF param = NoDays THEN <<>>
  ELSE collectDays(splitDays(param))

\* ------------------------------------------------- the details view
Node(label) == [label |-> label, width |-> 200, height |-> 40]

\* nodes that carry the time and/or the class of the opened card
HeaderNodes == {Node("6:00 AM CrossFit"), Node("6:00 AM")}

\* nodes that carry a status or an action
StatusNodes ==
  {Node("Reserve"), Node("Reserved"), Node("Join Waitlist"),
   Node("Class Full")}

Views ==
  {h \o s : h \in SeqsUpTo(HeaderNodes, 1),
            s \in SeqsUpTo(StatusNodes, MaxStatusNodes)}

\* nodes of a scope detectBookingOutcome may be handed: a label without a
\* status keyword, a waitlist label, a cancel label, and one label with both
ScopeNodes ==
  {Node("6:00 AM CrossFit"), Node("Waitlist"), Node("Cancel Reservation"),
   Node("Cancel Reservation (Waitlist)"), Node("Reserved"), Node("Class Full")}

Scopes == SeqsUpTo(ScopeNodes, MaxScopeNodes)

\* the labels a semantics node can carry
NodeLabels == {n.label : n \in HeaderNodes \cup StatusNodes \cup ScopeNodes}

\* the test hasTimeLabel makes on one aria-label
labelHasTime(label, timeLabel) ==
  includes(normalizeTimeLabel(chars(label)), normalizeTimeLabel(chars(timeLabel)))

LabelHasTime ==
  [l \in NodeLabels, t \in {"6:00 AM"} |-> labelHasTime(l, t)]

hasTimeLabel(view, timeLabel) ==
  \E i \in 1..Len(view) : LabelHasTime[view[i].label, timeLabel]

\* the test hasClassLabel makes on one aria-label
labelHasClass(label, classFilter) ==
  includes(toLowerCase(chars(label)), toLowerCase(trim(chars(classFilter))))

LabelHasClass ==
  [l \in NodeLabels, c \in {"CrossFit", ""} |-> labelHasClass(l, c)]

hasClassLabel(view, classFilter) ==
  \E i \in 1..Len(view) :
    /\ LabelHasClass[view[i].label, classFilter]
    /\ ~(view[i].width < 10 \/ view[i].height < 10)

BookingActionLabels ==
  {<<"r","e","s","e","r","v","e">>, <<"b","o","o","k">>, <<"s","i","g","n"," ","u","p">>, <<"j","o","i","n">>, <<"r","e","g","i","s","t","e","r">>, <<"w","a","i","t","l","i","s","t">>}

IsBookingActionLabel ==
  [l \in NodeLabels |-> anyIncludes(toLowerCase(chars(l)), BookingActionLabels)]

hasBookingAction(view) ==
  \E i \in 1..Len(view) : IsBookingActionLabel[view[i].label]

\* classification of one aria-label inside detectBookingOutcome's loop
labelOutcome(label) ==
  LET normalized == toLowerCase(chars(label)) IN
  IF includes(normalized, <<"r","e","s","e","r","v","e","d">>) THEN "reserved"
  ELSE IF anyIncludes(normalized,
            {<<"r","e","g","i","s","t","e","r","e","d">>, <<"b","o","o","k","e","d">>, <<"e","n","r","o","l","l","e","d">>, <<"a","t","t","e","n","d","i","n","g">>,
             <<"c","h","e","c","k","e","d"," ","i","n">>, <<"c","h","e","c","k"," ","i","n">>, <<"c","h","e","c","k","-","i","n">>})
       THEN "reserved"
  ELSE IF includes(normalized, <<"w","a","i","t","l","i","s","t">>) THEN "waitlisted"
  ELSE IF anyIncludes(normalized,
            {<<"c","a","n","c","e","l"," ","r","e","s","e","r","v","a","t","i","o","n">>, <<"c","a","n","c","e","l"," ","b","o","o","k","i","n","g">>, <<"c","a","n","c","e","l"," ","c","l","a","s","s">>,
             <<"l","e","a","v","e"," ","w","a","i","t","l","i","s","t">>, <<"c","a","n","c","e","l"," ","w","a","i","t","l","i","s","t">>, <<"w","i","t","h","d","r","a","w">>})
       THEN IF includes(normalized, <<"w","a","i","t","l","i","s","t">>) THEN "waitlisted" ELSE "reserved"
  ELSE IF anyIncludes(normalized, {<<"u","n","a","v","a","i","l","a","b","l","e">>, <<"c","l","a","s","s"," ","f","u","l","l">>})
       THEN "unavailable"
  ELSE "none"

LabelOutcome == [l \in NodeLabels |-> labelOutcome(l)]

\* the loop over the aria-labels: the first node that classifies decides
fromSemantics(view) ==
  LET deciding == {i \in 1..Len(view) : LabelOutcome[view[i].label] # "none"} IN
  IF deciding = {} THEN "unknown"
  ELSE LabelOutcome[view[CHOOSE i \in deciding : \A j \in deciding : i <= j].label]

\* texts the page may show outside the aria-labels (hasVisibleText)
VisibleTexts == {"check in", "cancel reservation", "waitlist"}

detectBookingOutcome(view, visible) ==
  IF fromSemantics(view) # "unknown" THEN fromSemantics(view)
  ELSE IF "check in" \in visible THEN "reserved"
  ELSE IF "cancel reservation" \in visible THEN "reserved"
  ELSE IF "waitlist" \in visible THEN "waitlisted"
  ELSE "unknown"

\* the inline waitlistOnly evaluation of book-days
IsWaitlistOnlyLabel ==
  [l \in NodeLabels |->
     anyIncludes(toLowerCase(chars(l)), {<<"c","l","a","s","s"," ","f","u","l","l">>, <<"w","a","i","t","l","i","s","t">>})]

waitlistOnly(view) ==
  \E i \in 1..Len(view) : IsWaitlistOnlyLabel[view[i].label]

\* the label patterns clickBookingAction looks for
ClickLabels == {<<"r","e","s","e","r","v","e">>, <<"b","o","o","k">>, <<"s","i","g","n"," ","u","p">>, <<"j","o","i","n">>, <<"r","e","g","i","s","t","e","r">>}

IsClickLabel ==
  [l \in NodeLabels |-> anyIncludes(toLowerCase(chars(l)), ClickLabels)]

hasClickTarget(view) ==
  \E i \in 1..Len(view) : IsClickLabel[view[i].label]

\* no details are shown
NoView == <<>>

\* --------------------------------------------------------- run parameters
DayTokens == {"mon", "Wed"}

joinDays(tokens) ==
  LET F[i \in 1..Len(tokens)] ==
        IF i = 1 THEN chars(tokens[1]) ELSE F[i - 1] \o <<",">> \o chars(tokens[i])
  IN F[Len(tokens)]

\* values of the --days option (as characters): absent, separators only, or
\* up to MaxDayTokens tokens
DaysOptions ==
  {NoDays, <<",">>}
    \cup {joinDays(t) : t \in SeqsUpTo(DayTokens, MaxDayTokens) \ {<<>>}}

TimeOptions == {Undefined, "6:00 AM"}

ClassOptions == {Undefined, ""}

\* the params record the run action of the CLI hands to the flow
runParams(optDays, optTime, optClass, optWaitlist, optConfirm) ==
  [days |-> optDays,
   time |-> optTime,
   class |-> optClass,
   waitlist |-> IF optWaitlist THEN "true" ELSE "false",
   confirm |-> IF optConfirm THEN "true" ELSE "false"]

ParsedDays == [option \in DaysOptions |-> parseDays(option)]

\* ------------------------------------------------------------------ state
VARIABLES
  params,       \* ctx.params
  pc,           \* position of the book-days action
  days,         \* parseDays(daysParam)
  dayIdx,       \* position of "for (const day of days)"
  slotsToUse,   \* the slots selected for the current day
  slotIdx,      \* position of "for (const slot of slotsToUse)"
  view,         \* semantics nodes of the details shown by ctx.page
  ctxPage,      \* ctx.page: 0 is the session's page, n > 0 a popup
  openPopups,   \* popups that are open
  flowData,     \* ctx.flowData: matches, bookings, attempts, notice
  cur,          \* locals of the current (or last) slot iteration
  evaluated,    \* number of slot iterations started
  openCalls,    \* number of openSlotDetails calls
  bookingCalls, \* number of clickBookingAction calls
  pointerClicks, \* the pointer clicks made by each clickBookingAction call
  scopeNodes,   \* aria-label nodes of the page detectBookingOutcome reads
  scopeVisible, \* texts hasVisibleText finds on that page
  classified,   \* what detectBookingOutcome returned, "pending" before
  clickCaller,  \* who called clickByLabel
  clickIdx,     \* position of "for (const attempt of attempts)"
  clickPc,      \* clickByLabel: in its loop, returned or thrown
  tried,        \* the strategies tried so far, with what each found
  clicksDone,   \* the points page.mouse.click has clicked
  callerResult  \* what became of the caller

\* the state of the book-days step
bookVars ==
  <<params, pc, days, dayIdx, slotsToUse, slotIdx, view, ctxPage, openPopups,
    flowData, cur, evaluated, openCalls, bookingCalls, pointerClicks>>

\* the state of a call of detectBookingOutcome on its own
classifyVars == <<scopeNodes, scopeVisible, classified>>

\* the state of a call of clickByLabel
clickVars ==
  <<clickCaller, clickIdx, clickPc, tried, clicksDone, callerResult>>

\* one invocation of the `run` command (cli.ts) and its calls of runFlow
VARIABLES
  runOpts,        \* the flow argument, --dry-run, and whether state/session.json exists
  runPc,          \* where the run action stands
  browser,        \* "none", "open" or "closed"
  sessionCheck,   \* what validateSession answered, "unchecked" before
  running,        \* name of the flow runFlow is executing, "none" outside runFlow
  stepIdx,        \* index of the next step of that flow
  stepsCompleted, \* runFlow's counter
  runData,        \* runFlow's data: the steps whose captured responses were merged
  invoked,        \* every step action invoked so far, in order
  outputs,        \* the files written to the output directory, in order
  exitCode,       \* process.exitCode
  runError        \* what made the run fail, "none" otherwise

runVars ==
  <<runOpts, runPc, browser, sessionCheck, running, stepIdx, stepsCompleted,
    runData, invoked, outputs, exitCode, runError>>

\* one call of clusterSemanticsFields (login flow)
VARIABLES
  fields,          \* the fields argument
  threshold,       \* the threshold argument
  clusterPc,       \* "off", "called" or "returned"
  clusters,        \* the clusters built by the walk
  representatives  \* the value returned: one field per cluster

clusterVars == <<fields, threshold, clusterPc, clusters, representatives>>

\* one call of attachClassLabelsToSlots
VARIABLES
  attachSlots,   \* the slots argument
  attachLabels,  \* the classLabels argument
  attachPc,      \* "off", "called" or "returned"
  maxDistance,   \* the association radius in pixels, 0 until computed
  matched        \* the value returned: the slots given a class label

attachVars == <<attachSlots, attachLabels, attachPc, maxDistance, matched>>

\* the last two steps of the login flow: wait-for-login-success, save-session
VARIABLES
  loginPc,        \* where waitForLoginSuccess and the two steps stand
  globalTimeout,  \* config.globalTimeout, in polling intervals of 500 ms
  elapsed,        \* Date.now() - start, in polling intervals
  polls,          \* hasLoginForm as observed by each poll, in order
  sessionSaved    \* whether saveSessionState has written the session state

loginVars == <<loginPc, globalTimeout, elapsed, polls, sessionSaved>>

\* one call of waitForStablePosition (login flow)
VARIABLES
  stablePc,       \* "off", "loop", "stable" (returned early) or "timed-out"
  stableTimeout,  \* timeoutMs, in waits of 150 ms
  stableElapsed,  \* Date.now() - start, in waits of 150 ms
  lastY,          \* <<>> for null, <<y>> otherwise; y in half pixels
  stableCount,    \* the counter of unchanged polls
  observed        \* what each poll saw: <<>> (no rect) or <<y>>

stableVars ==
  <<stablePc, stableTimeout, stableElapsed, lastY, stableCount, observed>>

\* one call of waitForDayButtons, waitForTimeSlots or findTimeSlotsWithScroll
VARIABLES
  waitKind,     \* the function called, "none" when there is no call
  waitPc,       \* "off", "loop", "first-find", "scroll" or "returned"
  waitTimeout,  \* timeoutMs, in waits of 300 ms
  waitElapsed,  \* Date.now() - start, in waits of 300 ms
  waitResult,   \* "none" until the return, then "found" or "empty"
  scrolls       \* the scroll steps findTimeSlotsWithScroll has made

waitVars == <<waitKind, waitPc, waitTimeout, waitElapsed, waitResult, scrolls>>

\* one run of the fill-credentials step of the login flow
VARIABLES
  semanticFields,  \* what findSemanticsTextFields answers
  fillPc,          \* "off", "found", "filled", "by-label" or "thrown"
  ordered,         \* what clusterSemanticsFields answers
  emailInto,       \* <<field>> the email was typed into, <<>> when none
  passwordInto     \* <<field>> the password was typed into, <<>> when none

fillVars == <<semanticFields, fillPc, ordered, emailInto, passwordInto>>

\* the NetworkCapture of one run and the runFlow call that uses it
VARIABLES
  capPc,      \* "off", "constructed", "acting" (a step's action runs) or "returned"
  capStep,    \* the step runFlow is at, 0 before the first
  capRules,   \* the step whose captureRules are installed, 0 for none
  capBuffer,  \* NetworkCapture.buffer: rule name -> records
  capData,    \* runFlow's data: rule name -> records
  pending,    \* the handleResponse calls waiting for response.json()
  fired       \* the responses fired during steps, in order

captureVars == <<capPc, capStep, capRules, capBuffer, capData, pending, fired>>

vars == <<bookVars, classifyVars, clickVars, runVars, clusterVars, attachVars, loginVars, stableVars, waitVars, fillVars, captureVars>>

\* what lies outside the network capture of a run
beyondCapture == <<bookVars, classifyVars, clickVars, runVars, clusterVars, attachVars, loginVars, stableVars, waitVars, fillVars>>

\* what lies outside a run of fill-credentials
beyondFill == <<bookVars, classifyVars, clickVars, runVars, clusterVars, attachVars, loginVars, stableVars, waitVars, captureVars>>

\* what lies outside a call of the schedule poll loops
beyondWait == <<bookVars, classifyVars, clickVars, runVars, clusterVars, attachVars, loginVars, stableVars, fillVars, captureVars>>

\* what lies outside a call of waitForStablePosition
beyondStable == <<bookVars, classifyVars, clickVars, runVars, clusterVars, attachVars, loginVars, waitVars, fillVars, captureVars>>

\* what lies outside the login steps
beyondLogin == <<bookVars, classifyVars, clickVars, runVars, clusterVars, attachVars, stableVars, waitVars, fillVars, captureVars>>

\* what lies outside a call of attachClassLabelsToSlots
beyondAttach == <<bookVars, classifyVars, clickVars, runVars, clusterVars, loginVars, stableVars, waitVars, fillVars, captureVars>>

\* what lies outside a call of clusterSemanticsFields
beyondCluster == <<bookVars, classifyVars, clickVars, runVars, attachVars, loginVars, stableVars, waitVars, fillVars, captureVars>>

\* what lies outside the book-days step
beyondBook == <<classifyVars, clickVars, runVars, clusterVars, attachVars, loginVars, stableVars, waitVars, fillVars, captureVars>>

\* what lies outside a call of detectBookingOutcome
beyondClassify == <<bookVars, clickVars, runVars, clusterVars, attachVars, loginVars, stableVars, waitVars, fillVars, captureVars>>

\* what lies outside a call of clickByLabel
beyondClick == <<bookVars, classifyVars, runVars, clusterVars, attachVars, loginVars, stableVars, waitVars, fillVars, captureVars>>

\* what lies outside an invocation of `run`
beyondRun == <<bookVars, classifyVars, clickVars, clusterVars, attachVars, loginVars, stableVars, waitVars, fillVars, captureVars>>

ClusterIdle ==
  /\ fields = <<>>
  /\ threshold = 0
  /\ clusterPc = "off"
  /\ clusters = <<>>
  /\ representatives = <<>>

AttachIdle ==
  /\ attachSlots = <<>>
  /\ attachLabels = <<>>
  /\ attachPc = "off"
  /\ maxDistance = 0
  /\ matched = <<>>

LoginIdle ==
  /\ loginPc = "off"
  /\ globalTimeout = 0
  /\ elapsed = 0
  /\ polls = <<>>
  /\ sessionSaved = FALSE

StableIdle ==
  /\ stablePc = "off"
  /\ stableTimeout = 0
  /\ stableElapsed = 0
  /\ lastY = <<>>
  /\ stableCount = 0
  /\ observed = <<>>

WaitIdle ==
  /\ waitKind = "none"
  /\ waitPc = "off"
  /\ waitTimeout = 0
  /\ waitElapsed = 0
  /\ waitResult = "none"
  /\ scrolls = 0

FillIdle ==
  /\ semanticFields = <<>>
  /\ fillPc = "off"
  /\ ordered = <<>>
  /\ emailInto = <<>>
  /\ passwordInto = <<>>

CaptureIdle ==
  /\ capPc = "off"
  /\ capStep = 0
  /\ capRules = 0
  /\ capBuffer = <<>>
  /\ capData = <<>>
  /\ pending = {}
  /\ fired = <<>>

ClickIdle ==
  /\ clickCaller = "none"
  /\ clickIdx = 0
  /\ clickPc = "off"
  /\ tried = <<>>
  /\ clicksDone = <<>>
  /\ callerResult = "pending"

NoOpts == [flow |-> "none", dryRun |-> FALSE, hasSession |-> FALSE]

RunIdle ==
  /\ runOpts = NoOpts
  /\ runPc = "off"
  /\ browser = "none"
  /\ sessionCheck = "unchecked"
  /\ running = "none"
  /\ stepIdx = 0
  /\ stepsCompleted = 0
  /\ runData = {}
  /\ invoked = <<>>
  /\ outputs = <<>>
  /\ exitCode = 0
  /\ runError = "none"

ClassifyIdle ==
  /\ scopeNodes = <<>>
  /\ scopeVisible = {}
  /\ classified = "pending"

timeParam == params.time

\* any non-empty string counts as a confirmation
confirmTruthy == params.confirm # ""
classParam == IF params.class = Undefined THEN "CrossFit" ELSE params.class
confirm == params.confirm = "true"
allowWaitlist == params.waitlist = "true"

NoNotice == [reason |-> "none", day |-> "none", label |-> ""]

NoSlot ==
  [day |-> "none", label |-> "", listReserved |-> FALSE, basePage |-> 0,
   detailPage |-> 0, opened |-> {}, preOutcome |-> "none",
   outcome |-> "none", clicked |-> FALSE, checks |-> <<>>]

Init ==
  /\ \E optDays \in DaysOptions, optTime \in TimeOptions,
        optClass \in ClassOptions, optWaitlist \in BOOLEAN,
        optConfirm \in BOOLEAN :
       params = runParams(optDays, optTime, optClass, optWaitlist, optConfirm)
  /\ pc = "start"
  /\ days = <<>>
  /\ dayIdx = 0
  /\ slotsToUse = <<>>
  /\ slotIdx = 0
  /\ view = NoView
  /\ ctxPage = 0
  /\ openPopups = {}
  /\ flowData = [matches |-> <<>>, bookings |-> <<>>, attempts |-> <<>>,
                 notice |-> NoNotice]
  /\ cur = NoSlot
  /\ evaluated = 0
  /\ openCalls = 0
  /\ bookingCalls = 0
  /\ pointerClicks = <<>>
  /\ ClassifyIdle
  /\ ClickIdle
  /\ RunIdle
  /\ ClusterIdle
  /\ AttachIdle
  /\ LoginIdle
  /\ StableIdle
  /\ WaitIdle
  /\ FillIdle
  /\ CaptureIdle

\* ------------------------------------------------- start of book-days
MissingParam ==
  /\ pc = "start"
  /\ params.days = NoDays \/ timeParam = Undefined
  /\ pc' = "thrown"
  /\ UNCHANGED beyondBook
  /\ UNCHANGED <<params, days, dayIdx, slotsToUse, slotIdx, view, ctxPage,
                 openPopups, flowData, cur, evaluated, openCalls, bookingCalls, pointerClicks>>

NoValidDays ==
  /\ pc = "start"
  /\ ~(params.days = NoDays \/ timeParam = Undefined)
  /\ ParsedDays[params.days] = <<>>
  /\ pc' = "thrown"
  /\ UNCHANGED beyondBook
  /\ UNCHANGED <<params, days, dayIdx, slotsToUse, slotIdx, view, ctxPage,
                 openPopups, flowData, cur, evaluated, openCalls, bookingCalls, pointerClicks>>

Begin ==
  /\ pc = "start"
  /\ ~(params.days = NoDays \/ timeParam = Undefined)
  /\ ParsedDays[params.days] # <<>>
  /\ days' = ParsedDays[params.days]
  /\ dayIdx' = 1
  /\ pc' = "day"
  /\ UNCHANGED beyondBook
  /\ UNCHANGED <<params, slotsToUse, slotIdx, view, ctxPage, openPopups,
                 flowData, cur, evaluated, openCalls, bookingCalls, pointerClicks>>

\* ------------------------------------------------------- the day loop
SlotLabels == {"6:00 AM", "6:00 AM RESERVE SOON"}

Slot(label) == [label |-> label]

SlotLists == SeqsUpTo({Slot(l) : l \in SlotLabels}, MaxSlots)

HasReserveSoon == [l \in SlotLabels |-> labelHasReserveSoon(l)]

\* the sub-lists of slots, in list order (what attachClassLabelsToSlots and
\* filterSlotsByClassLabel can return)
pick(slots, keep) ==
  LET F[i \in 0..Len(slots)] ==
        IF i = 0 THEN <<>>
        ELSE IF i \in keep THEN Append(F[i - 1], slots[i]) ELSE F[i - 1]
  IN F[Len(slots)]

SubLists(slots) == {pick(slots, keep) : keep \in SUBSET (1..Len(slots))}

\* the slots with the note whether a class label was associated with them
\* (by attachClassLabelsToSlots or by filterSlotsByClassLabel)
noted(slots, classMatched) ==
  [i \in DOMAIN slots |-> [label |-> slots[i].label, classMatched |-> classMatched]]

\* the slots to process for the day (slotsToUse), or skip: the day is
\* left out because several slots matched the time and none the class
selectSlots(slots, byLabel, byProximity) ==
  IF classParam = "" THEN [skip |-> FALSE, slots |-> noted(slots, FALSE)]
  ELSE LET matchedByLabel == byLabel
           matchedByProximity ==
             IF Len(matchedByLabel) > 0 THEN <<>> ELSE byProximity
       IN IF Len(matchedByLabel) > 0
          THEN [skip |-> FALSE, slots |-> noted(matchedByLabel, TRUE)]
          ELSE IF Len(matchedByProximity) > 0
          THEN [skip |-> FALSE, slots |-> noted(matchedByProximity, TRUE)]
          ELSE IF Len(slots) > 1 THEN [skip |-> TRUE, slots |-> <<>>]
          ELSE [skip |-> FALSE, slots |-> noted(slots, FALSE)]

DayButtonsMissing ==
  /\ pc = "day"
  /\ dayIdx <= Len(days)
  /\ flowData' = [flowData EXCEPT !.notice =
                    [reason |-> "day-buttons-missing", day |-> days[dayIdx],
                     label |-> ""]]
  /\ pc' = "done"
  /\ UNCHANGED beyondBook
  /\ UNCHANGED <<params, days, dayIdx, slotsToUse, slotIdx, view, ctxPage,
                 openPopups, cur, evaluated, openCalls, bookingCalls, pointerClicks>>

NoSlotsMatched ==
  /\ pc = "day"
  /\ dayIdx <= Len(days)
  /\ \E slots \in SlotLists :
       \E byLabel \in SubLists(slots), byProximity \in SubLists(slots) :
         \/ Len(slots) = 0
         \/ Len(slots) > 0 /\ selectSlots(slots, byLabel, byProximity).skip
  /\ dayIdx' = dayIdx + 1
  /\ UNCHANGED beyondBook
  /\ UNCHANGED <<params, pc, days, slotsToUse, slotIdx, view, ctxPage,
                 openPopups, flowData, cur, evaluated, openCalls, bookingCalls, pointerClicks>>

SelectDaySlots ==
  /\ pc = "day"
  /\ dayIdx <= Len(days)
  /\ \E slots \in SlotLists :
       \E byLabel \in SubLists(slots), byProximity \in SubLists(slots) :
         /\ Len(slots) > 0
         /\ ~selectSlots(slots, byLabel, byProximity).skip
         /\ evaluated + Len(selectSlots(slots, byLabel, byProximity).slots)
              <= MaxRunSlots
         /\ slotsToUse' = selectSlots(slots, byLabel, byProximity).slots
  /\ slotIdx' = 1
  /\ pc' = "slot"
  /\ UNCHANGED beyondBook
  /\ UNCHANGED <<params, days, dayIdx, view, ctxPage, openPopups, flowData,
                 cur, evaluated, openCalls, bookingCalls, pointerClicks>>

DaysDone ==
  /\ pc = "day"
  /\ dayIdx > Len(days)
  /\ pc' = "done"
  /\ UNCHANGED beyondBook
  /\ UNCHANGED <<params, days, dayIdx, slotsToUse, slotIdx, view, ctxPage,
                 openPopups, flowData, cur, evaluated, openCalls, bookingCalls, pointerClicks>>

SlotsDone ==
  /\ pc = "slot"
  /\ slotIdx > Len(slotsToUse)
  /\ pc' = "day"
  /\ dayIdx' = dayIdx + 1
  /\ slotsToUse' = <<>>
  /\ slotIdx' = 0
  /\ UNCHANGED beyondBook
  /\ UNCHANGED <<params, days, view, ctxPage, openPopups, flowData, cur,
                 evaluated, openCalls, bookingCalls, pointerClicks>>


\* ------------------------------------------------------ the slot loop
BookingRecord(day, label, status, note) ==
  [day |-> day, time |-> timeParam, className |-> classParam, label |-> label,
   status |-> status, note |-> note]

push(bucket, record) == [flowData EXCEPT ![bucket] = Append(@, record)]

\* locals of a slot iteration that has just evaluated isReservedSlotInList
startSlot(slot, listReserved) ==
  [NoSlot EXCEPT !.day = days[dayIdx], !.label = slot.label,
                 !.listReserved = listReserved, !.basePage = ctxPage,
                 !.detailPage = ctxPage]

\* "continue" of the slot loop
NextSlot ==
  /\ slotIdx' = slotIdx + 1
  /\ pc' = "slot"
  /\ view' = NoView

ReservedInList ==
  /\ pc = "slot"
  /\ slotIdx <= Len(slotsToUse)
  /\ LET slot == slotsToUse[slotIdx] IN
       /\ cur' = [startSlot(slot, TRUE) EXCEPT !.checks = <<"list">>]
       /\ flowData' = push("bookings",
            BookingRecord(days[dayIdx], slot.label, "reserved",
                          "already-reserved-list"))
  /\ evaluated' = evaluated + 1
  /\ NextSlot
  /\ UNCHANGED beyondBook
  /\ UNCHANGED <<params, days, dayIdx, slotsToUse, ctxPage, openPopups,
                 openCalls, bookingCalls, pointerClicks>>

\* the reserve-soon slot is recorded and the loop continues
ReserveSoonContinues ==
  /\ pc = "slot"
  /\ slotIdx <= Len(slotsToUse)
  /\ LET slot == slotsToUse[slotIdx] IN
       /\ HasReserveSoon[slot.label]
       /\ cur' = [startSlot(slot, FALSE) EXCEPT !.checks = <<"list", "reserve-soon">>]
       /\ flowData' =
            [push("attempts",
                  BookingRecord(days[dayIdx], slot.label, "skipped",
                                "reserve-soon"))
             EXCEPT !.notice = [reason |-> "reserve-soon", day |-> days[dayIdx],
                                label |-> slot.label]]
  /\ evaluated' = evaluated + 1
  /\ NextSlot
  /\ UNCHANGED beyondBook
  /\ UNCHANGED <<params, days, dayIdx, slotsToUse, ctxPage, openPopups,
                 openCalls, bookingCalls, pointerClicks>>

ReserveSoon ==
  /\ pc = "slot"
  /\ slotIdx <= Len(slotsToUse)
  /\ LET slot == slotsToUse[slotIdx] IN
       /\ HasReserveSoon[slot.label]
       /\ cur' = [startSlot(slot, FALSE) EXCEPT !.checks = <<"list", "reserve-soon">>]
       /\ flowData' =
            [push("attempts",
                  BookingRecord(days[dayIdx], slot.label, "skipped",
                                "reserve-soon"))
             EXCEPT !.notice = [reason |-> "reserve-soon", day |-> days[dayIdx],
                                label |-> slot.label]]
  /\ evaluated' = evaluated + 1
  /\ pc' = "done"
  /\ UNCHANGED beyondBook
  /\ UNCHANGED <<params, days, dayIdx, slotsToUse, slotIdx, view, ctxPage,
                 openPopups, openCalls, bookingCalls, pointerClicks>>

\* the dry-run match is pushed to the attempts bucket
DryRunAttempt ==
  /\ pc = "slot"
  /\ slotIdx <= Len(slotsToUse)
  /\ ~confirm
  /\ LET slot == slotsToUse[slotIdx] IN
       /\ ~HasReserveSoon[slot.label]
       /\ cur' = [startSlot(slot, FALSE) EXCEPT
                    !.checks = <<"list", "reserve-soon", "confirm">>]
       /\ flowData' = push("attempts",
            BookingRecord(days[dayIdx], slot.label, "attempted", "undefined"))
  /\ evaluated' = evaluated + 1
  /\ NextSlot
  /\ UNCHANGED beyondBook
  /\ UNCHANGED <<params, days, dayIdx, slotsToUse, ctxPage, openPopups,
                 openCalls, bookingCalls, pointerClicks>>

DryRunMatch ==
  /\ pc = "slot"
  /\ slotIdx <= Len(slotsToUse)
  /\ ~confirm
  /\ LET slot == slotsToUse[slotIdx] IN
       /\ ~HasReserveSoon[slot.label]
       /\ cur' = [startSlot(slot, FALSE) EXCEPT
                    !.checks = <<"list", "reserve-soon", "confirm">>]
       /\ flowData' = push("matches",
            BookingRecord(days[dayIdx], slot.label, "attempted", "undefined"))
  /\ evaluated' = evaluated + 1
  /\ NextSlot
  /\ UNCHANGED beyondBook
  /\ UNCHANGED <<params, days, dayIdx, slotsToUse, ctxPage, openPopups,
                 openCalls, bookingCalls, pointerClicks>>

\* ------------------------------------------------------ openSlotDetails
freshPopup(open) ==
  CHOOSE p \in 1..(Cardinality(open) + 1) :
    p \notin open /\ \A q \in 1..(p - 1) : q \in open

\* clickWithPopup, n times with a popup: ctx.page and the local page move
\* to each new popup, the popups left behind stay open
RECURSIVE followPopups(_, _, _)
followPopups(n, page, open) ==
  IF n = 0 THEN [page |-> page, open |-> open]
  ELSE followPopups(n - 1, freshPopup(open), open \cup {freshPopup(open)})

\* the page openSlotDetails returns: the page it is on when a click made a
\* booking action visible, basePage when no click did
openSlotDetails(page, open, n, shown) ==
  LET after == followPopups(n, page, open) IN
  [ctxPage |-> after.page,
   open |-> after.open,
   detailPage |-> IF hasBookingAction(shown) THEN after.page ELSE page]

OpenDetails ==
  /\ pc = "slot"
  /\ slotIdx <= Len(slotsToUse)
  /\ confirm
  /\ ~HasReserveSoon[slotsToUse[slotIdx].label]
  /\ \E n \in 0..MaxPopups, shown \in Views :
       LET opened == openSlotDetails(ctxPage, openPopups, n, shown) IN
       /\ ctxPage' = opened.ctxPage
       /\ openPopups' = opened.open
       /\ view' = shown
       /\ cur' = [startSlot(slotsToUse[slotIdx], FALSE) EXCEPT
                    !.detailPage = opened.detailPage,
                    !.opened = opened.open \ openPopups,
                    !.checks = <<"list", "reserve-soon", "confirm">>]
  /\ evaluated' = evaluated + 1
  /\ openCalls' = openCalls + 1
  /\ pc' = "details"
  /\ UNCHANGED beyondBook
  /\ UNCHANGED <<params, days, dayIdx, slotsToUse, slotIdx, flowData,
                 bookingCalls, pointerClicks>>


\* ------------------------------------- the checks on the opened details
Booked == {"reserved", "waitlisted"}

\* the checks without the test of preOutcome
detailChecksNoPre(shown, visible) ==
  LET pre == detectBookingOutcome(shown, visible)
      upToClass == IF classParam # "" THEN <<"time", "class">> ELSE <<"time">>
  IN
  IF ~hasTimeLabel(shown, timeParam)
  THEN [checks |-> <<"time">>, verdict |-> "time-mismatch", pre |-> "none"]
  ELSE IF classParam # "" /\ ~hasClassLabel(shown, classParam)
  THEN [checks |-> upToClass, verdict |-> "class-mismatch", pre |-> "none"]
  ELSE IF ~hasBookingAction(shown)
  THEN [checks |-> upToClass \o <<"pre", "action">>,
        verdict |-> "no-booking-action", pre |-> pre]
  ELSE IF ~allowWaitlist /\ waitlistOnly(shown)
  THEN [checks |-> upToClass \o <<"pre", "action", "waitlist">>,
        verdict |-> "waitlist-only", pre |-> pre]
  ELSE [checks |-> upToClass \o <<"pre", "action">>
                   \o (IF allowWaitlist THEN <<>> ELSE <<"waitlist">>),
        verdict |-> "book", pre |-> pre]

\* the checks without the test of the class label
detailChecksNoClass(shown, visible) ==
  LET pre == detectBookingOutcome(shown, visible)
      upToClass == IF classParam # "" THEN <<"time", "class">> ELSE <<"time">>
  IN
  IF ~hasTimeLabel(shown, timeParam)
  THEN [checks |-> <<"time">>, verdict |-> "time-mismatch", pre |-> "none"]
  ELSE IF pre \in Booked
  THEN [checks |-> upToClass \o <<"pre">>, verdict |-> "already-booked",
        pre |-> pre]
  ELSE IF ~hasBookingAction(shown)
  THEN [checks |-> upToClass \o <<"pre", "action">>,
        verdict |-> "no-booking-action", pre |-> pre]
  ELSE IF ~allowWaitlist /\ waitlistOnly(shown)
  THEN [checks |-> upToClass \o <<"pre", "action", "waitlist">>,
        verdict |-> "waitlist-only", pre |-> pre]
  ELSE [checks |-> upToClass \o <<"pre", "action">>
                   \o (IF allowWaitlist THEN <<>> ELSE <<"waitlist">>),
        verdict |-> "book", pre |-> pre]

\* The checks book-days makes on the opened details, in the order it makes
\* them: those made (checks), the first one that fails or "book" (verdict),
\* and preOutcome once detectBookingOutcome has been called (pre).
detailChecks(shown, visible) ==
  LET pre == detectBookingOutcome(shown, visible)
      upToClass == IF classParam # "" THEN <<"time", "class">> ELSE <<"time">>
  IN
  IF ~hasTimeLabel(shown, timeParam)
  THEN [checks |-> <<"time">>, verdict |-> "time-mismatch", pre |-> "none"]
  ELSE IF classParam # "" /\ ~hasClassLabel(shown, classParam)
  THEN [checks |-> upToClass, verdict |-> "class-mismatch", pre |-> "none"]
  ELSE IF pre \in Booked
  THEN [checks |-> upToClass \o <<"pre">>, verdict |-> "already-booked",
        pre |-> pre]
  ELSE IF ~hasBookingAction(shown)
  THEN [checks |-> upToClass \o <<"pre", "action">>,
        verdict |-> "no-booking-action", pre |-> pre]
  ELSE IF ~allowWaitlist /\ waitlistOnly(shown)
  THEN [checks |-> upToClass \o <<"pre", "action", "waitlist">>,
        verdict |-> "waitlist-only", pre |-> pre]
  ELSE [checks |-> upToClass \o <<"pre", "action">>
                   \o (IF allowWaitlist THEN <<>> ELSE <<"waitlist">>),
        verdict |-> "book", pre |-> pre]

\* "if (detailPage !== basePage) { detailPage.close(); ctx.page = basePage }"
restoredPage(detailPage, basePage) ==
  IF detailPage # basePage THEN basePage ELSE ctxPage

restoredPopups(detailPage, basePage) ==
  IF detailPage # basePage THEN openPopups \ {detailPage} ELSE openPopups

\* a path that records the slot, closes the details, hands the page back and
\* continues with the next slot
FinishSlot(bucket, status, note, result) ==
  /\ flowData' = push(bucket, BookingRecord(cur.day, cur.label, status, note))
  /\ ctxPage' = restoredPage(cur.detailPage, cur.basePage)
  /\ openPopups' = restoredPopups(cur.detailPage, cur.basePage)
  /\ cur' = [cur EXCEPT !.preOutcome = result.pre,
                        !.checks = cur.checks \o result.checks]
  /\ NextSlot
  /\ UNCHANGED beyondBook
  /\ UNCHANGED <<params, days, dayIdx, slotsToUse, evaluated, openCalls,
                 bookingCalls, pointerClicks>>

TimeMismatch ==
  /\ pc = "details"
  /\ \E visible \in SUBSET VisibleTexts :
       LET result == detailChecks(view, visible) IN
       /\ result.verdict = "time-mismatch"
       /\ FinishSlot("attempts", "skipped", "time-mismatch", result)

ClassMismatch ==
  /\ pc = "details"
  /\ \E visible \in SUBSET VisibleTexts :
       LET result == detailChecks(view, visible) IN
       /\ result.verdict = "class-mismatch"
       /\ FinishSlot("attempts", "skipped", "class-mismatch", result)

AlreadyBooked ==
  /\ pc = "details"
  /\ \E visible \in SUBSET VisibleTexts :
       LET result == detailChecks(view, visible) IN
       /\ result.verdict = "already-booked"
       /\ FinishSlot("bookings", result.pre, "already-booked", result)

NoBookingAction ==
  /\ pc = "details"
  /\ \E visible \in SUBSET VisibleTexts :
       LET result == detailChecks(view, visible) IN
       /\ result.verdict = "no-booking-action"
       /\ FinishSlot("attempts", "unavailable", "no-booking-action", result)

WaitlistOnly ==
  /\ pc = "details"
  /\ \E visible \in SUBSET VisibleTexts :
       LET result == detailChecks(view, visible) IN
       /\ result.verdict = "waitlist-only"
       /\ FinishSlot("attempts", "skipped", "waitlist-only", result)

\* ---------------------------------------------------- clickBookingAction
\* clickBookingAction clicks the first element one of its locators resolves
\* with a bounding box (located) and throws when none does
clickBookingAction(shown, located) ==
  IF hasClickTarget(shown) /\ located THEN "clicked" ELSE "thrown"

\* what an attempt of the cascade comes to: no element (or one without a
\* bounding box), page.mouse.click throwing, or the click made
AttemptOutcomes == {"nothing", "click-throws", "clicked"}

\* what the attempts of one call come to, in the order they are tried
CascadeFindings == [1..MaxCascade -> AttemptOutcomes]

\* one of the locators resolves an element that is clicked
located(findings) == \E i \in DOMAIN findings : findings[i] = "clicked"

\* the cascade goes on with the next attempt after a click
RECURSIVE cascadeClicksOn(_, _)
cascadeClicksOn(findings, i) ==
  IF i > Len(findings) THEN 0
  ELSE (IF findings[i] = "clicked" THEN 1 ELSE 0) + cascadeClicksOn(findings, i + 1)

\* the pointer clicks of the cascade from attempt i on: it returns at the
\* first click made
RECURSIVE cascadeClicks(_, _)
cascadeClicks(findings, i) ==
  IF i > Len(findings) THEN 0
  ELSE IF findings[i] = "clicked" THEN 1
  ELSE cascadeClicks(findings, i + 1)

\* the pointer clicks of one call of clickBookingAction
clicksMade(shown, findings) ==
  IF hasClickTarget(shown) THEN cascadeClicks(findings, 1) ELSE 0

\* the ways a call of clickBookingAction on that page can go: how it ends
\* and the pointer clicks it makes
bookingActionCalls(shown) ==
  {[result |-> clickBookingAction(shown, located(findings)),
    clicks |-> clicksMade(shown, findings)] : findings \in CascadeFindings}

\* what detectBookingOutcome can answer on the page the click leaves
PostOutcomes ==
  {detectBookingOutcome(after, visible) :
     after \in Views, visible \in SUBSET VisibleTexts}

\* every classification after the click is filed as a booking
bookedRecordAlways(day, label, outcome) ==
  [bucket |-> "bookings",
   record |-> BookingRecord(day, label, outcome, "undefined")]

\* the record made from the classification after the click
bookedRecord(day, label, outcome) ==
  IF outcome \in Booked
  THEN [bucket |-> "bookings",
        record |-> BookingRecord(day, label, outcome, "undefined")]
  ELSE [bucket |-> "attempts",
        record |-> BookingRecord(day, label, "attempted", outcome)]

PerformBooking ==
  /\ pc = "details"
  /\ \E visible \in SUBSET VisibleTexts, call \in bookingActionCalls(view) :
       LET result == detailChecks(view, visible) IN
       /\ result.verdict = "book"
       /\ call.result = "clicked"
       /\ pointerClicks' = Append(pointerClicks, call.clicks)
       /\ \E outcome \in PostOutcomes :
            LET booked == bookedRecord(cur.day, cur.label, outcome) IN
            /\ flowData' = push(booked.bucket, booked.record)
            /\ cur' = [cur EXCEPT !.preOutcome = result.pre,
                                  !.checks = cur.checks \o result.checks,
                                  !.clicked = TRUE, !.outcome = outcome]
  /\ bookingCalls' = bookingCalls + 1
  /\ ctxPage' = restoredPage(cur.detailPage, cur.basePage)
  /\ openPopups' = restoredPopups(cur.detailPage, cur.basePage)
  /\ NextSlot
  /\ UNCHANGED beyondBook
  /\ UNCHANGED <<params, days, dayIdx, slotsToUse, evaluated, openCalls>>

BookingActionThrows ==
  /\ pc = "details"
  /\ \E visible \in SUBSET VisibleTexts, call \in bookingActionCalls(view) :
       LET result == detailChecks(view, visible) IN
       /\ result.verdict = "book"
       /\ call.result = "thrown"
       /\ pointerClicks' = Append(pointerClicks, call.clicks)
       /\ cur' = [cur EXCEPT !.preOutcome = result.pre,
                             !.checks = cur.checks \o result.checks,
                             !.clicked = TRUE]
  /\ bookingCalls' = bookingCalls + 1
  /\ pc' = "thrown"
  /\ UNCHANGED beyondBook
  /\ UNCHANGED <<params, days, dayIdx, slotsToUse, slotIdx, view, ctxPage,
                 openPopups, flowData, evaluated, openCalls>>

\* ------------------------------------------------------- specification
Next ==
  \/ MissingParam
  \/ NoValidDays
  \/ Begin
  \/ DayButtonsMissing
  \/ NoSlotsMatched
  \/ SelectDaySlots
  \/ DaysDone
  \/ SlotsDone
  \/ ReservedInList
  \/ ReserveSoon
  \/ DryRunMatch
  \/ OpenDetails
  \/ TimeMismatch
  \/ ClassMismatch
  \/ AlreadyBooked
  \/ NoBookingAction
  \/ WaitlistOnly
  \/ PerformBooking
  \/ BookingActionThrows

Spec == Init /\ [][Next]_vars

TypeOK ==
  /\ pc \in {"start", "day", "slot", "details", "done", "thrown"}
  /\ ctxPage \in {0} \cup openPopups

\* the book-days step is not running
BookIdle ==
  /\ params = runParams(NoDays, Undefined, Undefined, FALSE, FALSE)
  /\ pc = "off"
  /\ days = <<>>
  /\ dayIdx = 0
  /\ slotsToUse = <<>>
  /\ slotIdx = 0
  /\ view = NoView
  /\ ctxPage = 0
  /\ openPopups = {}
  /\ flowData = [matches |-> <<>>, bookings |-> <<>>, attempts |-> <<>>,
                 notice |-> NoNotice]
  /\ cur = NoSlot
  /\ evaluated = 0
  /\ openCalls = 0
  /\ bookingCalls = 0
  /\ pointerClicks = <<>>

\* --------------------------------------- detectBookingOutcome on its own
InitClassify ==
  /\ scopeNodes \in Scopes
  /\ scopeVisible \in SUBSET VisibleTexts
  /\ classified = "pending"
  /\ BookIdle
  /\ ClickIdle
  /\ RunIdle
  /\ ClusterIdle
  /\ AttachIdle
  /\ LoginIdle
  /\ StableIdle
  /\ WaitIdle
  /\ FillIdle
  /\ CaptureIdle

Classify ==
  /\ classified = "pending"
  /\ classified' = detectBookingOutcome(scopeNodes, scopeVisible)
  /\ UNCHANGED <<scopeNodes, scopeVisible>>
  /\ UNCHANGED beyondClassify

NextClassify == Classify

SpecClassify == InitClassify /\ [][NextClassify]_vars

\* ------------------------------------------------------------ properties
Buckets == {"matches", "bookings", "attempts"}

AllRecords == flowData.matches \o flowData.bookings \o flowData.attempts

\* this step appends one record for the slot being processed to the bucket,
\* and leaves the other buckets alone
Appended(bucket, status, note) ==
  /\ flowData'[bucket] =
       Append(flowData[bucket], BookingRecord(cur'.day, cur'.label, status, note))
  /\ \A other \in Buckets \ {bucket} : flowData'[other] = flowData[other]

\* this step starts the evaluation of slotsToUse[slotIdx]
StartsSlot == pc = "slot" /\ evaluated' = evaluated + 1

\* this step invokes clickBookingAction
InvokesBookingAction == bookingCalls' = bookingCalls + 1

\* this step goes on with the next slot of the day
MovesOn == pc' = "slot" /\ slotIdx' = slotIdx + 1 /\ dayIdx' = dayIdx

\* the opened details show the requested time and class
ShowsTimeAndClass ==
  /\ hasTimeLabel(view, timeParam)
  /\ classParam # "" => hasClassLabel(view, classParam)

\* C1: once book-days reaches a slot that is not reserved in the list and
\* whose label contains 'reserve soon', it appends exactly one record
\* (attempts, 'skipped', 'reserve-soon') for it and returns; after that no
\* record is appended and no further slot or day is processed, and the
\* records made before are kept.
C1_ReserveSoonAbort ==
  /\ [][(StartsSlot /\ ~cur'.listReserved /\ HasReserveSoon[cur'.label])
          => /\ Appended("attempts", "skipped", "reserve-soon")
             /\ flowData'.notice.reason = "reserve-soon"
             /\ pc' = "done"
             /\ dayIdx' = dayIdx /\ slotIdx' = slotIdx]_vars
  /\ [][flowData.notice.reason = "reserve-soon"
          => UNCHANGED <<flowData, evaluated, dayIdx, slotIdx, openCalls,
                         bookingCalls>>]_vars

\* a reserve-soon slot met on the second day, the record of the first day kept
C1_Witness ==
  /\ flowData.notice.reason = "reserve-soon"
  /\ dayIdx = 2
  /\ Len(AllRecords) = 2
  /\ \E i \in 1..2 : AllRecords[i].day = days[1] /\ AllRecords[i].note # "reserve-soon"

\* C2: a slot marked reserved in the list is recorded in bookings as
\* 'reserved' / 'already-reserved-list', a slot whose details are
\* pre-classified reserved or waitlisted is recorded in bookings with that
\* status and the note 'already-booked'; clickBookingAction is not invoked
\* for either.
C2_IdempotentRebooking ==
  [][/\ (StartsSlot /\ cur'.listReserved)
          => /\ Appended("bookings", "reserved", "already-reserved-list")
             /\ ~InvokesBookingAction
             /\ MovesOn
     /\ (pc = "details" /\ cur'.preOutcome \in Booked)
          => /\ Appended("bookings", cur'.preOutcome, "already-booked")
             /\ ~InvokesBookingAction
             /\ MovesOn]_vars

\* one slot of each kind has been processed, no booking action invoked
C2_Witness ==
  /\ Len(flowData.bookings) = 2
  /\ flowData.bookings[1].note = "already-reserved-list"
  /\ flowData.bookings[2].note = "already-booked"
  /\ flowData.bookings[2].status = "waitlisted"
  /\ cur.preOutcome = "waitlisted"
  /\ bookingCalls = 0

\* C3: when the confirm parameter is not 'true', book-days never opens a
\* slot's details and never invokes clickBookingAction.
C3_ConfirmGate ==
  params.confirm # "true"
    => /\ openCalls = 0
       /\ bookingCalls = 0
       /\ pc # "details"
       /\ view = NoView
       /\ ctxPage = 0 /\ openPopups = {}

\* a dry run that has evaluated two slots
C3_Witness ==
  /\ params.confirm # "true"
  /\ evaluated = 2
  /\ Len(flowData.matches) = 2
  /\ pc = "done"

\* C4: whenever openSlotDetails followed a popup for a slot, then once the
\* slot's processing is left (next slot, return or throw) ctx.page is the
\* base page again and the popups opened for the slot are closed.
C4_HandBack ==
  (pc # "details" /\ cur.opened # {})
    => /\ ctxPage = cur.basePage
       /\ cur.opened \cap openPopups = {}

\* C5 (as claimed): with confirm not 'true' no record is ever appended to
\* bookings, and every evaluated slot without a reserve-soon marker is
\* recorded in matches with status 'attempted'.
C5_DryRunNoBookings ==
  [][params.confirm # "true"
       => /\ flowData'.bookings = flowData.bookings
          /\ (StartsSlot /\ ~HasReserveSoon[cur'.label])
               => Appended("matches", "attempted", Undefined)]_vars

\* C5 (amended): with confirm not 'true' the only records appended to
\* bookings are those of slots marked reserved in the list ('reserved',
\* 'already-reserved-list'), and every evaluated slot that is neither marked
\* reserved in the list nor carries a reserve-soon marker is recorded in
\* matches with status 'attempted'.
C5_DryRunPlacement ==
  [][params.confirm # "true"
       => /\ flowData'.bookings # flowData.bookings
               => /\ StartsSlot /\ cur'.listReserved
                  /\ Appended("bookings", "reserved", "already-reserved-list")
          /\ (StartsSlot /\ ~cur'.listReserved /\ ~HasReserveSoon[cur'.label])
               => Appended("matches", "attempted", Undefined)]_vars

\* a dry run with one slot reserved in the list and one plain match
C5_Witness ==
  /\ params.confirm # "true"
  /\ Len(flowData.bookings) = 1
  /\ flowData.bookings[1].note = "already-reserved-list"
  /\ Len(flowData.matches) = 1
  /\ flowData.matches[1].status = "attempted"

\* the checks a slot has passed when clickBookingAction is invoked for it
PassedChecks ==
  <<"list", "reserve-soon", "confirm", "time">>
    \o (IF classParam # "" THEN <<"class">> ELSE <<>>)
    \o <<"pre", "action">>
    \o (IF allowWaitlist THEN <<>> ELSE <<"waitlist">>)

\* clickBookingAction is invoked only after every check, made in order
GuardsBeforeBooking ==
  InvokesBookingAction
    => /\ pc = "details"
       /\ confirm
       /\ ~cur.listReserved
       /\ ~HasReserveSoon[cur.label]
       /\ ShowsTimeAndClass
       /\ cur'.preOutcome \notin Booked
       /\ hasBookingAction(view)
       /\ ~allowWaitlist => ~waitlistOnly(view)
       /\ cur'.checks = PassedChecks

\* in live mode this step ends the processing of a slot on a failed check
FailsCheck ==
  /\ confirm
  /\ StartsSlot \/ pc = "details"
  /\ pc' # "details"
  /\ ~InvokesBookingAction

\* the step leaves exactly one more record, the one of the slot it processes
RecordsSlot ==
  \E bucket \in Buckets :
    /\ Len(flowData'[bucket]) = Len(flowData[bucket]) + 1
    /\ SubSeq(flowData'[bucket], 1, Len(flowData[bucket])) = flowData[bucket]
    /\ LET record == flowData'[bucket][Len(flowData'[bucket])] IN
         record.day = cur'.day /\ record.label = cur'.label
    /\ \A other \in Buckets \ {bucket} : flowData'[other] = flowData[other]

OffersOnlyWaitlist ==
  /\ \E i \in 1..Len(view) : view[i].label = "Join Waitlist"
  /\ \A i \in 1..Len(view) :
       view[i] \in HeaderNodes \/ view[i].label = "Join Waitlist"

\* C7: in live mode with waitlist 'true', a slot whose details show the
\* requested time and class and offer only a waitlist action ('Join
\* Waitlist') has clickBookingAction invoked for it.
C7_WaitlistAllowed ==
  [][(pc = "details" /\ confirm /\ allowWaitlist /\ ShowsTimeAndClass
        /\ OffersOnlyWaitlist)
       => InvokesBookingAction]_vars

\* the details carry no label of an existing booking
NoBookedLabel ==
  \A i \in 1..Len(view) :
    view[i] \in HeaderNodes
      \/ view[i].label \in {"Reserve", "Join Waitlist", "Class Full"}

\* C8: in live mode with waitlist not 'true', a slot whose details are
\* waitlist-only (a label containing 'waitlist' or 'class full') is recorded
\* in attempts as 'skipped' / 'waitlist-only', nothing is added to bookings
\* and the booking action is not invoked.
C8_WaitlistDisallowed ==
  [][(pc = "details" /\ confirm /\ ~allowWaitlist /\ ShowsTimeAndClass
        /\ NoBookedLabel /\ waitlistOnly(view))
       => /\ Appended("attempts", "skipped", "waitlist-only")
          /\ ~InvokesBookingAction]_vars

\* C9: every slot whose evaluation has been left (next slot, return or
\* throw) has exactly one record in exactly one of the buckets, and a step
\* never changes or removes a record.
C9_OneRecordPerSlot ==
  [][/\ pc' # "details" => Len(AllRecords)' = evaluated'
     /\ \A bucket \in Buckets :
          /\ Len(flowData'[bucket]) >= Len(flowData[bucket])
          /\ SubSeq(flowData'[bucket], 1, Len(flowData[bucket]))
               = flowData[bucket]]_vars

\* C10: every record in bookings has status 'reserved' or 'waitlisted',
\* every record in matches 'attempted', every record in attempts 'skipped',
\* 'unavailable' or 'attempted'; no status lies outside the closed set.
C10_BucketStatus ==
  /\ \A i \in 1..Len(flowData.bookings) :
       flowData.bookings[i].status \in {"reserved", "waitlisted"}
  /\ \A i \in 1..Len(flowData.matches) :
       flowData.matches[i].status = "attempted"
  /\ \A i \in 1..Len(flowData.attempts) :
       flowData.attempts[i].status \in {"skipped", "unavailable", "attempted"}
  /\ \A i \in 1..Len(AllRecords) :
       AllRecords[i].status \in
         {"reserved", "waitlisted", "attempted", "skipped", "unavailable",
          "unknown"}

\* a booking made by the click and an attempt whose outcome stayed unknown
C10_Witness ==
  /\ bookingCalls = 2
  /\ Len(flowData.bookings) = 1
  /\ flowData.bookings[1].status = "waitlisted"
  /\ flowData.bookings[1].note = Undefined
  /\ Len(flowData.attempts) = 1
  /\ flowData.attempts[1].status = "attempted"
  /\ flowData.attempts[1].note = "unknown"

\* ------------------------------------------------------- clickByLabel
\* the attempts of clickByLabel, in the order of its array
ClickStrategies == <<"role-button", "role-link", "text", "semantics-text">>

\* the call sites: two steps of the schedule-book flow, and tryClickByLabel
ClickCallers == {"open-schedule", "open-category", "tryClickByLabel"}

\* bounding boxes an element may have
Boxes ==
  {[x |-> 0, y |-> 0, width |-> 10, height |-> 4],
   [x |-> 30, y |-> 8, width |-> 7, height |-> 3]}

NoBox == [x |-> 0, y |-> 0, width |-> 0, height |-> 0]

\* the point clicked, (box.x + box.width / 2, box.y + box.height / 2), in
\* halves of a pixel
centre(box) ==
  [x2 |-> 2 * box.x + box.width, y2 |-> 2 * box.y + box.height]

Attempt(found, box) ==
  [name |-> ClickStrategies[clickIdx], found |-> found, box |-> box]

\* what becomes of the caller when clickByLabel returns
afterReturn(caller) ==
  IF caller = "tryClickByLabel" THEN "true" ELSE "step-continues"

\* tryClickByLabel lets the error through
afterThrowUncaught(caller) == "step-aborted"

\* what becomes of the caller when clickByLabel throws
afterThrow(caller) ==
  IF caller = "tryClickByLabel" THEN "false" ELSE "step-aborted"

InitClick ==
  /\ clickCaller \in ClickCallers
  /\ clickIdx = 1
  /\ clickPc = "loop"
  /\ tried = <<>>
  /\ clicksDone = <<>>
  /\ callerResult = "pending"
  /\ BookIdle
  /\ ClassifyIdle
  /\ RunIdle
  /\ ClusterIdle
  /\ AttachIdle
  /\ LoginIdle
  /\ StableIdle
  /\ WaitIdle
  /\ FillIdle
  /\ CaptureIdle

\* elementHandle answers null (no element within the timeout)
StrategyFindsNothing ==
  /\ clickPc = "loop"
  /\ clickIdx <= Len(ClickStrategies)
  /\ tried' = Append(tried, Attempt("no-element", NoBox))
  /\ clickIdx' = clickIdx + 1
  /\ UNCHANGED <<clickCaller, clickPc, clicksDone, callerResult>>
  /\ UNCHANGED beyondClick

\* the element has no bounding box, or asking for it throws
StrategyFindsNoBox ==
  /\ clickPc = "loop"
  /\ clickIdx <= Len(ClickStrategies)
  /\ tried' = Append(tried, Attempt("no-box", NoBox))
  /\ clickIdx' = clickIdx + 1
  /\ UNCHANGED <<clickCaller, clickPc, clicksDone, callerResult>>
  /\ UNCHANGED beyondClick

\* the element has a bounding box but page.mouse.click throws: the catch
\* block goes on with the next attempt
StrategyClickThrows ==
  /\ clickPc = "loop"
  /\ clickIdx <= Len(ClickStrategies)
  /\ \E box \in Boxes : tried' = Append(tried, Attempt("click-throws", box))
  /\ clickIdx' = clickIdx + 1
  /\ UNCHANGED <<clickCaller, clickPc, clicksDone, callerResult>>
  /\ UNCHANGED beyondClick

\* the click goes on with the next attempt instead of returning
StrategyClicksOn ==
  /\ clickPc = "loop"
  /\ clickIdx <= Len(ClickStrategies)
  /\ \E box \in Boxes :
       /\ tried' = Append(tried, Attempt("clicked", box))
       /\ clicksDone' = Append(clicksDone, centre(box))
  /\ clickIdx' = clickIdx + 1
  /\ UNCHANGED <<clickCaller, clickPc, callerResult>>
  /\ UNCHANGED beyondClick

\* the element has a bounding box and is clicked: clickByLabel returns
StrategyClicks ==
  /\ clickPc = "loop"
  /\ clickIdx <= Len(ClickStrategies)
  /\ \E box \in Boxes :
       /\ tried' = Append(tried, Attempt("clicked", box))
       /\ clicksDone' = Append(clicksDone, centre(box))
  /\ clickPc' = "returned"
  /\ callerResult' = afterReturn(clickCaller)
  /\ UNCHANGED <<clickCaller, clickIdx>>
  /\ UNCHANGED beyondClick

\* the loop is over: throw new Error(`Failed to click ...`)
CascadeExhausted ==
  /\ clickPc = "loop"
  /\ clickIdx > Len(ClickStrategies)
  /\ clickPc' = "thrown"
  /\ callerResult' = afterThrow(clickCaller)
  /\ UNCHANGED <<clickCaller, clickIdx, tried, clicksDone>>
  /\ UNCHANGED beyondClick

NextClick ==
  \/ StrategyFindsNothing
  \/ StrategyFindsNoBox
  \/ StrategyClickThrows
  \/ StrategyClicks
  \/ CascadeExhausted

SpecClick == InitClick /\ [][NextClick]_vars

(***************************************************************************)
(* The `run` command (cli.ts) and runFlow (flow-runner.ts).                *)
(***************************************************************************)

\* the registry of flows: per flow the names of its steps, in order
FlowSteps ==
  ( "login" :>
      <<"navigate-to-home", "enable-semantics", "open-login",
        "fill-credentials", "submit-login", "wait-for-login-success",
        "save-session">> ) @@
  ( "workout-history" :>
      <<"navigate-home", "open-workouts", "capture-workouts">> ) @@
  ( "workout-week" :>
      <<"navigate-home", "enable-semantics", "open-workouts",
        "select-workout-type", "capture-sun", "capture-mon", "capture-tue",
        "capture-wed", "capture-thu", "capture-fri", "capture-sat">> ) @@
  ( "schedule-book" :>
      <<"navigate-home", "enable-semantics", "open-schedule",
        "open-category", "apply-class-filter", "maybe-open-next-week",
        "book-days">> )

\* the <flow> arguments tried: the registered flows and one unknown name
FlowArgs == DOMAIN FlowSteps \cup {"sign-up"}

\* getFlow: the registered flow of that name, Undefined when there is none
getFlow(name) == IF name \in DOMAIN FlowSteps THEN name ELSE Undefined

\* the steps that set ctx.flowData as soon as their action starts
FlowDataSteps == {"book-days"}

\* ctx.flowData: the steps invoked so far that wrote into it
ctxFlowData ==
  {invoked[i].step : i \in {j \in DOMAIN invoked : invoked[j].step \in FlowDataSteps}}

\* mergeCapture: captured entries are added to the target, none is dropped
mergeCapture(target, captured) == target \cup captured

\* the envelope the run action writes for a finished flow
envelope(flow, suffix, completed, data) ==
  [ flow |-> flow, suffix |-> suffix, stepsCompleted |-> completed,
    stepsTotal |-> Len(FlowSteps[flow]), success |-> TRUE, data |-> data ]

\* the files written for a finished flow: the envelope, and for workout-week
\* the summary as well
outputFiles(flow, completed, data) ==
  IF flow = "login" THEN <<>>
  ELSE IF flow = "workout-week"
    THEN << envelope(flow, "", completed, data),
            envelope(flow, "-summary", completed, data) >>
    ELSE << envelope(flow, "", completed, data) >>

\* runFlow starts: data = {}, stepsCompleted = 0
beginFlow(flow) ==
  /\ running' = flow
  /\ stepIdx' = 1
  /\ stepsCompleted' = 0
  /\ runData' = {}

InitRun ==
  /\ runOpts \in [flow : FlowArgs, dryRun : BOOLEAN, hasSession : BOOLEAN]
  /\ runPc = "start"
  /\ browser = "none"
  /\ sessionCheck = "unchecked"
  /\ running = "none"
  /\ stepIdx = 0
  /\ stepsCompleted = 0
  /\ runData = {}
  /\ invoked = <<>>
  /\ outputs = <<>>
  /\ exitCode = 0
  /\ runError = "none"
  /\ BookIdle
  /\ ClassifyIdle
  /\ ClickIdle
  /\ ClusterIdle
  /\ AttachIdle
  /\ LoginIdle
  /\ StableIdle
  /\ WaitIdle
  /\ FillIdle
  /\ CaptureIdle

\* getFlow finds nothing: the flows are listed and the exit code is 1
UnknownFlow ==
  /\ runPc = "start"
  /\ getFlow(runOpts.flow) = Undefined
  /\ exitCode' = 1
  /\ runError' = "unknown-flow"
  /\ runPc' = "exited"
  /\ UNCHANGED <<runOpts, browser, sessionCheck, running, stepIdx,
                 stepsCompleted, runData, invoked, outputs>>
  /\ UNCHANGED beyondRun

\* --dry-run: runFlow is called with a context that has no page
StartDryRun ==
  /\ runPc = "start"
  /\ getFlow(runOpts.flow) # Undefined
  /\ runOpts.dryRun
  /\ beginFlow(runOpts.flow)
  /\ runPc' = "dry"
  /\ UNCHANGED <<runOpts, browser, sessionCheck, invoked, outputs, exitCode,
                 runError>>
  /\ UNCHANGED beyondRun

\* a dry-run step invokes the step's action instead of only logging it
DryRunStepInvokes ==
  /\ runPc = "dry"
  /\ stepIdx <= Len(FlowSteps[running])
  /\ invoked' =
       Append(invoked, [flow |-> running, step |-> FlowSteps[running][stepIdx]])
  /\ stepsCompleted' = stepsCompleted + 1
  /\ stepIdx' = stepIdx + 1
  /\ UNCHANGED <<runOpts, runPc, browser, sessionCheck, running, runData,
                 outputs, exitCode, runError>>
  /\ UNCHANGED beyondRun

\* runFlow, dryRun branch: the step is logged and counted, its action is
\* not invoked
DryRunStep ==
  /\ runPc = "dry"
  /\ stepIdx <= Len(FlowSteps[running])
  /\ stepsCompleted' = stepsCompleted + 1
  /\ stepIdx' = stepIdx + 1
  /\ UNCHANGED <<runOpts, runPc, browser, sessionCheck, running, runData,
                 invoked, outputs, exitCode, runError>>
  /\ UNCHANGED beyondRun

\* runFlow returns {data, stepsCompleted}; the run action returns at once
DryRunReturns ==
  /\ runPc = "dry"
  /\ stepIdx > Len(FlowSteps[running])
  /\ running' = "none"
  /\ runPc' = "exited"
  /\ UNCHANGED <<runOpts, browser, sessionCheck, stepIdx, stepsCompleted,
                 runData, invoked, outputs, exitCode, runError>>
  /\ UNCHANGED beyondRun

\* launchBrowser answers a session
LaunchBrowser ==
  /\ runPc = "start"
  /\ getFlow(runOpts.flow) # Undefined
  /\ ~runOpts.dryRun
  /\ browser' = "open"
  /\ runPc' = "session"
  /\ UNCHANGED <<runOpts, sessionCheck, running, stepIdx, stepsCompleted,
                 runData, invoked, outputs, exitCode, runError>>
  /\ UNCHANGED beyondRun

\* launchBrowser throws (the browsers are missing, say): outer catch
LaunchFails ==
  /\ runPc = "start"
  /\ getFlow(runOpts.flow) # Undefined
  /\ ~runOpts.dryRun
  /\ exitCode' = 1
  /\ runError' = "browser"
  /\ runPc' = "exited"
  /\ UNCHANGED <<runOpts, browser, sessionCheck, running, stepIdx,
                 stepsCompleted, runData, invoked, outputs>>
  /\ UNCHANGED beyondRun

\* the login flow itself, or no session file: the flow is run at once
SkipValidation ==
  /\ runPc = "session"
  /\ runOpts.flow = "login" \/ ~runOpts.hasSession
  /\ beginFlow(runOpts.flow)
  /\ runPc' = "flow"
  /\ UNCHANGED <<runOpts, browser, sessionCheck, invoked, outputs, exitCode,
                 runError>>
  /\ UNCHANGED beyondRun

\* validateSession answers: a valid session starts the flow, an invalid one
\* starts the login flow first
ValidateSession ==
  /\ runPc = "session"
  /\ runOpts.flow # "login"
  /\ runOpts.hasSession
  /\ \E valid \in BOOLEAN :
       /\ sessionCheck' = IF valid THEN "valid" ELSE "invalid"
       /\ beginFlow(IF valid THEN runOpts.flow ELSE "login")
       /\ runPc' = IF valid THEN "flow" ELSE "reauth"
  /\ UNCHANGED <<runOpts, browser, invoked, outputs, exitCode, runError>>
  /\ UNCHANGED beyondRun

\* validateSession throws (page.goto fails): finally closes the browser, the
\* outer catch sets the exit code
ValidateThrows ==
  /\ runPc = "session"
  /\ runOpts.flow # "login"
  /\ runOpts.hasSession
  /\ browser' = "closed"
  /\ exitCode' = 1
  /\ runError' = "session"
  /\ runPc' = "exited"
  /\ UNCHANGED <<runOpts, sessionCheck, running, stepIdx, stepsCompleted,
                 runData, invoked, outputs>>
  /\ UNCHANGED beyondRun

\* runFlow: the step's action runs to its end, the step is counted and what
\* the capture flushed is merged into data
StepRuns ==
  /\ runPc \in {"reauth", "flow"}
  /\ stepIdx <= Len(FlowSteps[running])
  /\ invoked' =
       Append(invoked, [flow |-> running, step |-> FlowSteps[running][stepIdx]])
  /\ stepsCompleted' = stepsCompleted + 1
  /\ \E captured \in {{}, {FlowSteps[running][stepIdx]}} :
       runData' = mergeCapture(runData, captured)
  /\ stepIdx' = stepIdx + 1
  /\ UNCHANGED <<runOpts, runPc, browser, sessionCheck, running, outputs,
                 exitCode, runError>>
  /\ UNCHANGED beyondRun

\* the error of the step's action is swallowed and the loop goes on
StepThrowsSwallowed ==
  /\ runPc \in {"reauth", "flow"}
  /\ stepIdx <= Len(FlowSteps[running])
  /\ invoked' =
       Append(invoked, [flow |-> running, step |-> FlowSteps[running][stepIdx]])
  /\ runError' = "step"
  /\ stepIdx' = stepIdx + 1
  /\ UNCHANGED <<runOpts, runPc, browser, sessionCheck, running,
                 stepsCompleted, runData, outputs, exitCode>>
  /\ UNCHANGED beyondRun

\* runFlow: the step's action throws; the error leaves runFlow and the run
\* action's try block, finally closes the browser, the outer catch logs
\* 'Run failed' and sets the exit code; nothing is written
StepThrows ==
  /\ runPc \in {"reauth", "flow"}
  /\ stepIdx <= Len(FlowSteps[running])
  /\ invoked' =
       Append(invoked, [flow |-> running, step |-> FlowSteps[running][stepIdx]])
  /\ browser' = "closed"
  /\ exitCode' = 1
  /\ runError' = "step"
  /\ runPc' = "exited"
  /\ UNCHANGED <<runOpts, sessionCheck, running, stepIdx, stepsCompleted,
                 runData, outputs>>
  /\ UNCHANGED beyondRun

\* the login flow run for an invalid session is over: the named flow starts
LoginCompletes ==
  /\ runPc = "reauth"
  /\ stepIdx > Len(FlowSteps[running])
  /\ beginFlow(runOpts.flow)
  /\ runPc' = "flow"
  /\ UNCHANGED <<runOpts, browser, sessionCheck, invoked, outputs, exitCode,
                 runError>>
  /\ UNCHANGED beyondRun

\* runFlow merges ctx.flowData and returns; the run action writes the output
\* (not for login) and closes the browser
FlowCompletes ==
  /\ runPc = "flow"
  /\ stepIdx > Len(FlowSteps[running])
  /\ runData' = mergeCapture(runData, ctxFlowData)
  /\ outputs' = outputs \o outputFiles(running, stepsCompleted, runData')
  /\ browser' = "closed"
  /\ running' = "none"
  /\ runPc' = "exited"
  /\ UNCHANGED <<runOpts, sessionCheck, stepIdx, stepsCompleted, invoked,
                 exitCode, runError>>
  /\ UNCHANGED beyondRun

\* writing the output throws: finally closes the browser, exit code 1
OutputFails ==
  /\ runPc = "flow"
  /\ stepIdx > Len(FlowSteps[running])
  /\ running # "login"
  /\ runData' = mergeCapture(runData, ctxFlowData)
  /\ browser' = "closed"
  /\ exitCode' = 1
  /\ runError' = "output"
  /\ running' = "none"
  /\ runPc' = "exited"
  /\ UNCHANGED <<runOpts, sessionCheck, stepIdx, stepsCompleted, invoked,
                 outputs>>
  /\ UNCHANGED beyondRun

NextRun ==
  \/ UnknownFlow
  \/ StartDryRun
  \/ DryRunStep
  \/ DryRunReturns
  \/ LaunchBrowser
  \/ LaunchFails
  \/ SkipValidation
  \/ ValidateSession
  \/ ValidateThrows
  \/ StepRuns
  \/ StepThrows
  \/ LoginCompletes
  \/ FlowCompletes
  \/ OutputFails

SpecRun == InitRun /\ [][NextRun]_vars

\* the keywords detectBookingOutcome knows besides 'waitlist' and
\* 'cancel reservation'
OtherStatusKeywords ==
  {<<"r","e","s","e","r","v","e","d">>, <<"r","e","g","i","s","t","e","r","e","d">>, <<"b","o","o","k","e","d">>, <<"e","n","r","o","l","l","e","d">>, <<"a","t","t","e","n","d","i","n","g">>,
   <<"c","h","e","c","k","e","d"," ","i","n">>, <<"c","h","e","c","k"," ","i","n">>, <<"c","h","e","c","k","-","i","n">>, <<"c","a","n","c","e","l"," ","b","o","o","k","i","n","g">>,
   <<"c","a","n","c","e","l"," ","c","l","a","s","s">>, <<"w","i","t","h","d","r","a","w">>, <<"u","n","a","v","a","i","l","a","b","l","e">>, <<"c","l","a","s","s"," ","f","u","l","l">>}

\* the keyword occurs in an aria-label of the scope
LabelMentions(keyword) ==
  \E i \in 1..Len(scopeNodes) :
    includes(toLowerCase(chars(scopeNodes[i].label)), keyword)

\* the scope holds a 'waitlist' and a 'cancel reservation' keyword, in its
\* labels or its visible text, and no other status keyword
WaitlistAndCancelOnly ==
  /\ LabelMentions(<<"w","a","i","t","l","i","s","t">>) \/ "waitlist" \in scopeVisible
  /\ LabelMentions(<<"c","a","n","c","e","l"," ","r","e","s","e","r","v","a","t","i","o","n">>)
       \/ "cancel reservation" \in scopeVisible
  /\ \A keyword \in OtherStatusKeywords : ~LabelMentions(keyword)
  /\ "check in" \notin scopeVisible

\* C11: for every scope that contains both a 'waitlist' keyword and a
\* 'cancel reservation' keyword (in one label or in different labels, in any
\* order) and no other status keyword, detectBookingOutcome returns
\* 'reserved'.
C11_CancelOverWaitlist ==
  (classified # "pending" /\ WaitlistAndCancelOnly) => classified = "reserved"

\* the strategies are tried in the order of the array, none left out
TriedInOrder ==
  /\ Len(tried) <= Len(ClickStrategies)
  /\ \A i \in 1..Len(tried) : tried[i].name = ClickStrategies[i]

\* the attempts that yielded an element with a bounding box
WithBox == {i \in 1..Len(tried) : tried[i].found \in {"clicked", "click-throws"}}

\* the attempts whose click was performed
Clicked == {i \in 1..Len(tried) : tried[i].found = "clicked"}

\* exactly the attempts 1..k were tried and the only click is the one of
\* attempt k, at the centre of its element
StopsAt(k) ==
  /\ Len(tried) = k
  /\ clickPc = "returned"
  /\ clicksDone = <<centre(tried[k].box)>>

\* C12 (as claimed): the strategies are tried in the fixed order; if
\* strategy K is the first that yields an element with a bounding box,
\* exactly strategies 1..K are tried and exactly one click is performed, at
\* that element's centre.
C12_ShortCircuitAtFirstBox ==
  /\ TriedInOrder
  /\ \A k \in WithBox : (\A i \in WithBox : k <= i) => StopsAt(k)

\* C12 (amended): the strategies are tried in the fixed order; if strategy
\* K is the first whose element with a bounding box is clicked without the
\* click throwing, exactly strategies 1..K are tried and exactly one click is
\* performed, at that element's centre; a strategy whose click throws is
\* passed over like one that finds nothing.
C12_ShortCircuit ==
  /\ TriedInOrder
  /\ \A k \in Clicked : (\A i \in Clicked : k <= i) => StopsAt(k)
  /\ Clicked = {} => clicksDone = <<>> /\ clickPc # "returned"

\* the third strategy clicked after one found nothing and one had no box
C12_Witness ==
  /\ clickPc = "returned"
  /\ Len(tried) = 3
  /\ tried[1].found = "no-element"
  /\ tried[2].found = "click-throws"
  /\ tried[3].found = "clicked"
  /\ clicksDone = <<[x2 |-> 67, y2 |-> 19]>>

\* the call of clickByLabel is over
ClickOver == clickPc \in {"returned", "thrown"}

\* what the claim says of a throw: no click, the step aborted or false
ThrowAborts ==
  clickPc = "thrown"
    => /\ clicksDone = <<>>
       /\ callerResult =
            IF clickCaller = "tryClickByLabel" THEN "false" ELSE "step-aborted"

\* C13 (as claimed): clickByLabel throws if and only if every strategy
\* fails to yield a clickable element; when it throws no click was performed
\* and the calling step is aborted, unless the caller is tryClickByLabel,
\* which answers false.
C13_ThrowsIffNothingClickable ==
  /\ ClickOver => (clickPc = "thrown" <=> (WithBox = {} /\ Len(tried) = Len(ClickStrategies)))
  /\ ThrowAborts

\* C13 (amended): clickByLabel throws if and only if no strategy performs
\* a click (each finds no element with a bounding box, or its click throws);
\* when it throws no click was performed and the calling step is aborted,
\* unless the caller is tryClickByLabel, which answers false.
C13_ThrowsIffNoClick ==
  /\ ClickOver => (clickPc = "thrown" <=> (Clicked = {} /\ Len(tried) = Len(ClickStrategies)))
  /\ ClickOver /\ clickPc # "thrown" => callerResult \in {"true", "step-continues"}
  /\ ThrowAborts

\* tryClickByLabel has answered false after all four strategies failed
C13_Witness ==
  /\ clickPc = "thrown"
  /\ clickCaller = "tryClickByLabel"
  /\ callerResult = "false"
  /\ Len(tried) = 4
  /\ tried[4].found = "no-box"

(***************************************************************************)
(* Properties of the `run` command.                                        *)
(***************************************************************************)

\* everything the run has gathered: runFlow's data and ctx.flowData
Gathered == mergeCapture(runData, ctxFlowData)

\* C14: when a step throws part-way through a flow run, the exit code is
\* not zero and an output file has been written that holds the data of
\* everything completed before the failing point.
C14_PartialOutput ==
  runError = "step" =>
    /\ exitCode # 0
    /\ \E i \in DOMAIN outputs : Gathered \subseteq outputs[i].data

\* the login flow has been run through, every step in order
LoginRunToCompletion ==
  /\ Len(invoked) >= Len(FlowSteps["login"])
  /\ \A k \in DOMAIN FlowSteps["login"] :
       invoked[k] = [flow |-> "login", step |-> FlowSteps["login"][k]]

\* C15: once a step of a flow other than login has been invoked, the saved
\* session was validated as valid or the login flow was run to completion;
\* and with a session validated as valid no login step is ever invoked.
C15_AuthenticatedBeforeFlow ==
  /\ (\E i \in DOMAIN invoked : invoked[i].flow # "login")
       => (sessionCheck = "valid" \/ LoginRunToCompletion)
  /\ sessionCheck = "valid"
       => \A i \in DOMAIN invoked : invoked[i].flow # "login"

\* C20: with --dry-run and a registered flow no step action is invoked, no
\* browser is launched, no output file is written, and when runFlow has
\* returned stepsCompleted is the number of steps of the flow.
C20_DryRun ==
  (runOpts.dryRun /\ getFlow(runOpts.flow) # Undefined) =>
    /\ invoked = <<>>
    /\ browser = "none"
    /\ outputs = <<>>
    /\ runPc = "exited" => stepsCompleted = Len(FlowSteps[runOpts.flow])

\* a dry run of schedule-book has returned, all its steps counted
C20_Witness ==
  /\ runOpts.dryRun
  /\ runOpts.flow = "schedule-book"
  /\ runPc = "exited"
  /\ stepsCompleted = Len(FlowSteps["schedule-book"])
  /\ invoked = <<>>

(***************************************************************************)
(* Day selection in book-days.                                             *)
(***************************************************************************)

\* clickDayByKey answered false for the day at hand: the day buttons were
\* not detected, also after the retry; book-days notes it in the notice
DayButtonsUndetected ==
  /\ pc = "day"
  /\ flowData'.notice # flowData.notice
  /\ flowData'.notice.reason = "day-buttons-missing"

\* C16: when the day buttons cannot be detected for a requested day,
\* book-days does not throw, skips that day and goes on with the remaining
\* requested days.
C16_ResilientDaySelection ==
  [][DayButtonsUndetected => (pc' = "day" /\ dayIdx' = dayIdx + 1)]_vars

(***************************************************************************)
(* clusterSemanticsFields: rows of fields by Y coordinate.                 *)
(***************************************************************************)

abs(n) == IF n < 0 THEN 0 - n ELSE n

\* the boxes of semantics fields; x, label and role play no part
SemanticsFieldBoxes == [y : 0..MaxFieldY, width : 1..MaxFieldWidth, height : {1}]

Thresholds == 1..MaxThreshold

\* Array.prototype.sort with (a, b) => a.y - b.y is stable: a field goes
\* behind the fields already placed whose y is not larger
insertByY(sorted, field) ==
  LET k == Cardinality({i \in DOMAIN sorted : sorted[i].y <= field.y})
  IN  SubSeq(sorted, 1, k) \o <<field>> \o SubSeq(sorted, k + 1, Len(sorted))

RECURSIVE sortByY(_)
sortByY(fs) ==
  IF fs = <<>> THEN <<>>
  ELSE insertByY(sortByY(SubSeq(fs, 1, Len(fs) - 1)), fs[Len(fs)])

\* the walk compares each field with the field before it, not the anchor
RECURSIVE walkChained(_, _, _)
walkChained(rest, cs, t) ==
  IF rest = <<>> THEN cs
  ELSE LET field == Head(rest)
           n == Len(cs)
       IN  IF n > 0 /\ abs(field.y - cs[n].fields[Len(cs[n].fields)].y) < t
           THEN walkChained(Tail(rest),
                            [cs EXCEPT ![n].fields = Append(@, field)], t)
           ELSE walkChained(Tail(rest),
                            Append(cs, [y |-> field.y, fields |-> <<field>>]), t)

\* the walk over the sorted fields: a field joins the last cluster when its
\* y is less than the threshold away from that cluster's y (the y of its
\* first field), otherwise it starts a cluster
RECURSIVE walk(_, _, _)
walk(rest, cs, t) ==
  IF rest = <<>> THEN cs
  ELSE LET field == Head(rest)
           n == Len(cs)
       IN  IF n > 0 /\ abs(field.y - cs[n].y) < t
           THEN walk(Tail(rest), [cs EXCEPT ![n].fields = Append(@, field)], t)
           ELSE walk(Tail(rest),
                     Append(cs, [y |-> field.y, fields |-> <<field>>]), t)

\* the first field of the cluster whatever its area
firstField(fs) == fs[1]

\* reduce without initial value: the first field of largest area
RECURSIVE largest(_)
largest(fs) ==
  IF Len(fs) = 1 THEN fs[1]
  ELSE LET best == largest(SubSeq(fs, 1, Len(fs) - 1))
           current == fs[Len(fs)]
       IN  IF current.width * current.height > best.width * best.height
           THEN current ELSE best

InitCluster ==
  /\ fields \in SeqsUpTo(SemanticsFieldBoxes, MaxFields)
  /\ threshold \in Thresholds
  /\ clusterPc = "called"
  /\ clusters = <<>>
  /\ representatives = <<>>
  /\ BookIdle
  /\ ClassifyIdle
  /\ ClickIdle
  /\ RunIdle
  /\ AttachIdle
  /\ LoginIdle
  /\ StableIdle
  /\ WaitIdle
  /\ FillIdle
  /\ CaptureIdle

clusterSemanticsFields ==
  /\ clusterPc = "called"
  /\ clusters' = walk(sortByY(fields), <<>>, threshold)
  /\ representatives' = [i \in DOMAIN clusters' |-> largest(clusters'[i].fields)]
  /\ clusterPc' = "returned"
  /\ UNCHANGED <<fields, threshold>>
  /\ UNCHANGED beyondCluster

NextCluster == clusterSemanticsFields

SpecCluster == InitCluster /\ [][NextCluster]_vars

\* every field of the argument sits in exactly one cluster
ClustersPartition ==
  LET all == [c \in DOMAIN clusters |-> clusters[c].fields]
      RECURSIVE flat(_)
      flat(k) == IF k = 0 THEN <<>> ELSE flat(k - 1) \o all[k]
  IN  flat(Len(clusters)) = sortByY(fields)

\* C17 (as claimed): any two fields placed in different clusters have Y
\* coordinates that differ by more than the threshold.
C17_ClustersSeparated ==
  clusterPc = "returned" =>
    \A c, d \in DOMAIN clusters :
      c # d =>
        \A i \in DOMAIN clusters[c].fields, j \in DOMAIN clusters[d].fields :
          abs(clusters[c].fields[i].y - clusters[d].fields[j].y) > threshold

\* C17 (amended): the clusters partition the fields; every field is less
\* than the threshold away from the first field of its cluster, and the
\* first fields of two different clusters are at least the threshold apart.
C17_ClustersAnchored ==
  clusterPc = "returned" =>
    /\ ClustersPartition
    /\ \A c \in DOMAIN clusters :
         /\ clusters[c].y = clusters[c].fields[1].y
         /\ \A i \in DOMAIN clusters[c].fields :
              abs(clusters[c].fields[i].y - clusters[c].y) < threshold
    /\ \A c, d \in DOMAIN clusters :
         c # d => abs(clusters[c].y - clusters[d].y) >= threshold

\* three fields at 0, 2 and 3 with threshold 3: the fields at 2 and 3 end up
\* in different clusters
C17_Witness ==
  /\ clusterPc = "returned"
  /\ threshold = 3
  /\ Len(fields) = 3
  /\ {fields[i].y : i \in DOMAIN fields} = {0, 2, 3}
  /\ Len(clusters) = 2
  /\ Len(clusters[1].fields) = 2

(***************************************************************************)
(* attachClassLabelsToSlots: the association radius.  Boxes have whole     *)
(* pixel coordinates, so centres (y + height / 2) are whole numbers of     *)
(* half pixels; names ending in 2 are in half pixels.                      *)
(***************************************************************************)

RadiusFloor == 60      \* Math.max(60, ...)
RadiusCeiling == 140   \* Math.min(140, ...)
DefaultMinGap == 80    \* minGap when no gap is kept

\* the boxes of slots and class labels; x, width and label play no part
AttachSlotBoxes == [y : {0, 1, 50, 130, 330}, height : {20, 21}]

AttachLabelBoxes == [y : {0, 61, 228, 400}, height : {20}]

centerY2(box) == 2 * box.y + box.height

\* Array.prototype.sort((a, b) => a - b)
RECURSIVE sortAscending(_)
sortAscending(ns) ==
  IF ns = <<>> THEN <<>>
  ELSE LET front == sortAscending(SubSeq(ns, 1, Len(ns) - 1))
           n == ns[Len(ns)]
           k == Cardinality({i \in DOMAIN front : front[i] <= n})
       IN  SubSeq(front, 1, k) \o <<n>> \o SubSeq(front, k + 1, Len(front))

\* the gaps kept: differences of neighbouring sorted centres above 1 pixel
gaps2(centers2) ==
  {centers2[i] - centers2[i - 1] :
     i \in {k \in 2..Len(centers2) : centers2[k] - centers2[k - 1] > 2}}

SetMin(S) == CHOOSE n \in S : \A m \in S : n <= m

minGap2(slots) ==
  LET kept == gaps2(sortAscending([i \in DOMAIN slots |-> centerY2(slots[i])]))
  IN  IF kept # {} THEN SetMin(kept) ELSE 2 * DefaultMinGap

\* Math.round(minGap * 0.75): the nearest whole pixel, halves upwards
roundThreeQuarters(gap2) == (3 * gap2 + 4) \div 8

\* the radius without the lower and upper limit
attachRadiusUnclamped(slots) == roundThreeQuarters(minGap2(slots))

\* Math.max(60, Math.min(140, Math.round(minGap * 0.75)))
attachRadius(slots) ==
  LET rounded == roundThreeQuarters(minGap2(slots))
      capped == IF rounded < RadiusCeiling THEN rounded ELSE RadiusCeiling
  IN  IF capped > RadiusFloor THEN capped ELSE RadiusFloor

\* the nearest class label of a slot: the first of least distance
RECURSIVE nearestLabel(_, _)
nearestLabel(slot, labels) ==
  IF Len(labels) = 1
  THEN [label |-> labels[1], distance2 |-> abs(centerY2(labels[1]) - centerY2(slot))]
  ELSE LET best == nearestLabel(slot, SubSeq(labels, 1, Len(labels) - 1))
           label == labels[Len(labels)]
           distance2 == abs(centerY2(label) - centerY2(slot))
       IN  IF distance2 < best.distance2
           THEN [label |-> label, distance2 |-> distance2] ELSE best

\* a class label exactly at the radius is turned down
RECURSIVE attachWithinStrict(_, _, _)
attachWithinStrict(slots, labels, radius) ==
  IF slots = <<>> THEN <<>>
  ELSE LET slot == Head(slots)
           best == nearestLabel(slot, labels)
           rest == attachWithinStrict(Tail(slots), labels, radius)
       IN  IF best.distance2 < 2 * radius
           THEN <<[y |-> slot.y, height |-> slot.height,
                   classLabel |-> best.label]>> \o rest
           ELSE rest

\* the slots whose nearest class label is within the radius, each with it
RECURSIVE attachWithin(_, _, _)
attachWithin(slots, labels, radius) ==
  IF slots = <<>> THEN <<>>
  ELSE LET slot == Head(slots)
           best == nearestLabel(slot, labels)
           rest == attachWithin(Tail(slots), labels, radius)
       IN  IF best.distance2 <= 2 * radius
           THEN <<[y |-> slot.y, height |-> slot.height,
                   classLabel |-> best.label]>> \o rest
           ELSE rest

InitAttach ==
  /\ attachSlots \in SeqsUpTo(AttachSlotBoxes, MaxAttachSlots)
  /\ attachLabels \in SeqsUpTo(AttachLabelBoxes, MaxClassLabels)
  /\ attachPc = "called"
  /\ maxDistance = 0
  /\ matched = <<>>
  /\ BookIdle
  /\ ClassifyIdle
  /\ ClickIdle
  /\ RunIdle
  /\ ClusterIdle
  /\ LoginIdle
  /\ StableIdle
  /\ WaitIdle
  /\ FillIdle
  /\ CaptureIdle

\* no slots or no class labels: [] is returned at once
AttachNothing ==
  /\ attachPc = "called"
  /\ Len(attachSlots) = 0 \/ Len(attachLabels) = 0
  /\ attachPc' = "returned"
  /\ UNCHANGED <<attachSlots, attachLabels, maxDistance, matched>>
  /\ UNCHANGED beyondAttach

attachClassLabelsToSlots ==
  /\ attachPc = "called"
  /\ Len(attachSlots) > 0
  /\ Len(attachLabels) > 0
  /\ maxDistance' = attachRadius(attachSlots)
  /\ matched' = attachWithin(attachSlots, attachLabels, maxDistance')
  /\ attachPc' = "returned"
  /\ UNCHANGED <<attachSlots, attachLabels>>
  /\ UNCHANGED beyondAttach

NextAttach ==
  \/ AttachNothing
  \/ attachClassLabelsToSlots

SpecAttach == InitAttach /\ [][NextAttach]_vars

\* the centres of the slots handed in, in half pixels
SlotCenters2 == {centerY2(attachSlots[i]) : i \in DOMAIN attachSlots}

\* G as claimed: the least distance between the centres of two slots
MinPairwiseGap2 ==
  SetMin({abs(centerY2(attachSlots[p[1]]) - centerY2(attachSlots[p[2]])) :
            p \in {q \in (DOMAIN attachSlots) \X (DOMAIN attachSlots) : q[1] < q[2]}})

\* max(60, min(140, r))
Clamped(r) ==
  LET capped == IF r < RadiusCeiling THEN r ELSE RadiusCeiling
  IN  IF capped > RadiusFloor THEN capped ELSE RadiusFloor

\* the association radius has been computed
RadiusComputed ==
  /\ attachPc = "returned"
  /\ Len(attachSlots) > 0
  /\ Len(attachLabels) > 0

\* C18 (as claimed): with G the minimum pairwise gap of the slot centres,
\* the radius used is max(60, min(140, round(0.75 * G))), within [60, 140].
C18_RadiusFromMinGap ==
  (RadiusComputed /\ Len(attachSlots) >= 2) =>
    /\ maxDistance = Clamped(roundThreeQuarters(MinPairwiseGap2))
    /\ maxDistance >= RadiusFloor
    /\ maxDistance <= RadiusCeiling

\* the distances between centres that are neighbours in ascending order,
\* those of at most one pixel left out
NeighbourGaps2 ==
  {b - a : <<a, b>> \in
     {p \in SlotCenters2 \X SlotCenters2 :
        /\ p[2] - p[1] > 2
        /\ ~\E c \in SlotCenters2 : p[1] < c /\ c < p[2]}}

\* C18 (amended): with G the least gap above one pixel between centres that
\* are neighbours in ascending order, or 80 when there is no such gap, the
\* radius used is max(60, min(140, round(0.75 * G))), within [60, 140].
C18_RadiusFromKeptGap ==
  RadiusComputed =>
    /\ maxDistance =
         Clamped(roundThreeQuarters(
           IF NeighbourGaps2 # {} THEN SetMin(NeighbourGaps2)
           ELSE 2 * DefaultMinGap))
    /\ maxDistance >= RadiusFloor
    /\ maxDistance <= RadiusCeiling

\* slots centred one pixel apart and a third far below: the gap of one pixel
\* is left out and the radius is the upper limit
C18_Witness ==
  /\ RadiusComputed
  /\ SlotCenters2 = {20, 22, 680}
  /\ maxDistance = RadiusCeiling

(***************************************************************************)
(* waitForLoginSuccess and the login steps around it.  Time is counted in  *)
(* polling intervals (page.waitForTimeout(500)); a poll takes between 0    *)
(* and MaxPollTime intervals.                                              *)
(***************************************************************************)

InitLogin ==
  /\ loginPc = "first-poll"
  /\ globalTimeout \in 1..MaxTimeout
  /\ elapsed = 0
  /\ polls = <<>>
  /\ sessionSaved = FALSE
  /\ BookIdle
  /\ ClassifyIdle
  /\ ClickIdle
  /\ RunIdle
  /\ ClusterIdle
  /\ AttachIdle
  /\ StableIdle
  /\ WaitIdle
  /\ FillIdle
  /\ CaptureIdle

\* the poll before the loop: without a login form the function returns
FirstPoll ==
  /\ loginPc = "first-poll"
  /\ \E hasLoginForm \in BOOLEAN, took \in 0..MaxPollTime :
       /\ polls' = Append(polls, hasLoginForm)
       /\ elapsed' = elapsed + took
       /\ loginPc' = IF hasLoginForm THEN "loop" ELSE "returned"
  /\ UNCHANGED <<globalTimeout, sessionSaved>>
  /\ UNCHANGED beyondLogin

\* getLoginIndicators throws (the page is gone): the error leaves the
\* function and the step
PollThrows ==
  /\ loginPc \in {"first-poll", "loop"}
  /\ loginPc = "loop" => elapsed < globalTimeout
  /\ loginPc' = "thrown"
  /\ UNCHANGED <<globalTimeout, elapsed, polls, sessionSaved>>
  /\ UNCHANGED beyondLogin

\* one round of the loop: a poll; without a login form the function
\* returns, otherwise it waits one interval
LoopPoll ==
  /\ loginPc = "loop"
  /\ elapsed < globalTimeout
  /\ \E hasLoginForm \in BOOLEAN, took \in 0..MaxPollTime :
       /\ polls' = Append(polls, hasLoginForm)
       /\ elapsed' = IF hasLoginForm THEN elapsed + took + 1 ELSE elapsed + took
       /\ loginPc' = IF hasLoginForm THEN "loop" ELSE "returned"
  /\ UNCHANGED <<globalTimeout, sessionSaved>>
  /\ UNCHANGED beyondLogin

\* the loop ends with a normal return
TimedOutReturns ==
  /\ loginPc = "loop"
  /\ elapsed >= globalTimeout
  /\ loginPc' = "returned"
  /\ UNCHANGED <<globalTimeout, elapsed, polls, sessionSaved>>
  /\ UNCHANGED beyondLogin

\* the loop ends: 'Login did not complete before timeout' is thrown
TimedOut ==
  /\ loginPc = "loop"
  /\ elapsed >= globalTimeout
  /\ loginPc' = "thrown"
  /\ UNCHANGED <<globalTimeout, elapsed, polls, sessionSaved>>
  /\ UNCHANGED beyondLogin

\* wait-for-login-success is over: runFlow runs save-session
SaveSession ==
  /\ loginPc = "returned"
  /\ sessionSaved' = TRUE
  /\ loginPc' = "saved"
  /\ UNCHANGED <<globalTimeout, elapsed, polls>>
  /\ UNCHANGED beyondLogin

\* saveSessionState throws (the state directory cannot be written)
SaveSessionThrows ==
  /\ loginPc = "returned"
  /\ loginPc' = "thrown"
  /\ UNCHANGED <<globalTimeout, elapsed, polls, sessionSaved>>
  /\ UNCHANGED beyondLogin

NextLogin ==
  \/ FirstPoll
  \/ PollThrows
  \/ LoopPoll
  \/ TimedOut
  \/ SaveSession
  \/ SaveSessionThrows

SpecLogin == InitLogin /\ [][NextLogin]_vars

\* waitForLoginSuccess has returned normally
LoginConfirmed == loginPc \in {"returned", "saved"} \/ sessionSaved

\* the login form was visible at every poll
FormAlwaysVisible == \A i \in DOMAIN polls : polls[i]

\* C19: waitForLoginSuccess returns normally only after a poll that saw no
\* login form; once globalTimeout has elapsed with the form visible at
\* every poll the next thing it does is throw; and the session state is
\* saved only after such a return.
C19_LoginConfirmation ==
  /\ [](LoginConfirmed => (polls # <<>> /\ ~polls[Len(polls)]))
  /\ [](sessionSaved => ~FormAlwaysVisible)
  /\ [][(loginPc = "loop" /\ elapsed >= globalTimeout)
          => (loginPc' = "thrown" /\ sessionSaved' = FALSE)]_vars
  /\ [][loginPc = "thrown" => loginPc' = "thrown"]_vars

\* the form stayed visible over several polls, the timeout elapsed and the
\* function has thrown; nothing was saved
C19_Witness ==
  /\ loginPc = "thrown"
  /\ Len(polls) >= 3
  /\ FormAlwaysVisible
  /\ elapsed >= globalTimeout
  /\ ~sessionSaved

(***************************************************************************)
(* Keyword classes of the outcome classifier over the whole scope.         *)
(***************************************************************************)

ReservedKeywords ==
  {<<"r","e","s","e","r","v","e","d">>, <<"r","e","g","i","s","t","e","r","e","d">>, <<"b","o","o","k","e","d">>, <<"e","n","r","o","l","l","e","d">>,
   <<"a","t","t","e","n","d","i","n","g">>, <<"c","h","e","c","k","e","d"," ","i","n">>}

CancelKeywords ==
  {<<"c","a","n","c","e","l"," ","r","e","s","e","r","v","a","t","i","o","n">>, <<"c","a","n","c","e","l"," ","b","o","o","k","i","n","g">>,
   <<"c","a","n","c","e","l"," ","c","l","a","s","s">>}

UnavailableKeywords == {<<"u","n","a","v","a","i","l","a","b","l","e">>, <<"c","l","a","s","s"," ","f","u","l","l">>}

\* some aria-label of the scope contains a keyword of the class
ScopeMentions(keywords) == \E keyword \in keywords : LabelMentions(keyword)

\* the answer by priority of the keyword classes over all the labels
ByPriority ==
  IF ScopeMentions(ReservedKeywords) THEN "reserved"
  ELSE IF LabelMentions(<<"w","a","i","t","l","i","s","t">>) THEN "waitlisted"
  ELSE IF ScopeMentions(CancelKeywords) THEN "reserved"
  ELSE IF ScopeMentions(UnavailableKeywords) THEN "unavailable"
  ELSE "unknown"

\* C21: detectBookingOutcome answers by priority of the keyword classes
\* whatever the order of the labels: 'reserved' when any label has a
\* reserved-class keyword, otherwise 'waitlisted' when any has 'waitlist',
\* otherwise 'reserved' when any has a cancel keyword, otherwise
\* 'unavailable' when any has 'unavailable' or 'class full'; 'unknown' only
\* when no keyword occurs anywhere.
C21_KeywordPriority ==
  classified # "pending" =>
    /\ ByPriority # "unknown" => classified = ByPriority
    /\ classified = "unknown" => (ByPriority = "unknown" /\ scopeVisible = {})

(***************************************************************************)
(* Class filter and slot selection in book-days.                           *)
(***************************************************************************)

\* C22: with a class filter, a time-matching slot that no class label was
\* associated with (neither by radius nor by proximity) is never processed:
\* its evaluation is not started, so no record is made and nothing is
\* clicked for it, however many slots match the time.
C22_NoGuessing ==
  [][(StartsSlot /\ classParam # "") => slotsToUse[slotIdx].classMatched]_vars

\* the vertical distance of the centres of a slot and a label, half pixels
Distance2(slot, label) == abs(centerY2(label) - centerY2(slot))

\* the slots that have some class label within the radius
WithinRadius ==
  {i \in DOMAIN attachSlots :
     \E l \in DOMAIN attachLabels :
       Distance2(attachSlots[i], attachLabels[l]) <= 2 * maxDistance}

\* C23: for non-empty inputs the slots returned are, in input order,
\* exactly those whose nearest class label is at most the radius away, each
\* with a label attached that no other label is nearer than; a label
\* exactly at the radius counts, a label beyond it does not.
C23_NearestLabel ==
  RadiusComputed =>
    LET kept == pick(attachSlots, WithinRadius) IN
    /\ Len(matched) = Len(kept)
    /\ \A k \in DOMAIN matched :
         /\ matched[k].y = kept[k].y
         /\ matched[k].height = kept[k].height
         /\ \E l \in DOMAIN attachLabels : matched[k].classLabel = attachLabels[l]
         /\ Distance2(kept[k], matched[k].classLabel) <= 2 * maxDistance
         /\ \A l \in DOMAIN attachLabels :
              Distance2(kept[k], matched[k].classLabel)
                <= Distance2(kept[k], attachLabels[l])

\* slots centred at 10 and 140, radius 98: the label centred at 238 is
\* exactly 98 below the second slot, which is returned with it; the first
\* slot, 228 away, is not
C23_Witness ==
  /\ RadiusComputed
  /\ attachSlots = <<[y |-> 0, height |-> 20], [y |-> 130, height |-> 20]>>
  /\ attachLabels = <<[y |-> 400, height |-> 20], [y |-> 228, height |-> 20]>>
  /\ maxDistance = 98
  /\ matched = <<[y |-> 130, height |-> 20,
                  classLabel |-> [y |-> 228, height |-> 20]]>>

(***************************************************************************)
(* The representatives clusterSemanticsFields returns.                     *)
(***************************************************************************)

area(field) == field.width * field.height

\* C24: clusterSemanticsFields returns exactly one field per cluster, in
\* ascending order of the clusters' Y, and that field is a member of its
\* cluster that no other member exceeds in area (width x height).
C24_Representatives ==
  clusterPc = "returned" =>
    /\ Len(representatives) = Len(clusters)
    /\ \A c \in DOMAIN clusters :
         /\ \E i \in DOMAIN clusters[c].fields :
              representatives[c] = clusters[c].fields[i]
         /\ \A i \in DOMAIN clusters[c].fields :
              area(representatives[c]) >= area(clusters[c].fields[i])
    /\ \A c, d \in DOMAIN clusters : c < d => clusters[c].y < clusters[d].y

\* two rows; in the first the larger field comes second and is returned
C24_Witness ==
  /\ clusterPc = "returned"
  /\ Len(clusters) = 2
  /\ Len(clusters[1].fields) = 2
  /\ area(clusters[1].fields[1]) < area(clusters[1].fields[2])
  /\ representatives[1] = clusters[1].fields[2]
  /\ Len(representatives) = 2

(***************************************************************************)
(* waitForStablePosition.  Time is counted in waits                        *)
(* (page.waitForTimeout(150)); the top edge Y is in half pixels, so        *)
(* Math.abs(rect.y - lastY) < 1 reads abs(y - last) < 2.                   *)
(***************************************************************************)

StableTarget == 5   \* stableCount >= 5

\* what a poll can see: no rect (<<>>) or the top edge of the element
Rects == {<<>>} \cup {<<y>> : y \in 0..MaxTopY}

\* a changed position starts a new baseline but the counter is kept
afterRectNoReset(last, count, rect) ==
  IF last # <<>> /\ abs(rect[1] - last[1]) < 2
  THEN [lastY |-> last, stableCount |-> count + 1]
  ELSE [lastY |-> rect, stableCount |-> count]

\* one poll that found the element: an unchanged position counts, a changed
\* one (or the first one) becomes the baseline and the counter restarts
afterRect(last, count, rect) ==
  IF last # <<>> /\ abs(rect[1] - last[1]) < 2
  THEN [lastY |-> last, stableCount |-> count + 1]
  ELSE [lastY |-> rect, stableCount |-> 0]

InitStable ==
  /\ stablePc = "loop"
  /\ stableTimeout \in 1..MaxStableTimeout
  /\ stableElapsed = 0
  /\ lastY = <<>>
  /\ stableCount = 0
  /\ observed = <<>>
  /\ BookIdle
  /\ ClassifyIdle
  /\ ClickIdle
  /\ RunIdle
  /\ ClusterIdle
  /\ AttachIdle
  /\ LoginIdle
  /\ WaitIdle
  /\ FillIdle
  /\ CaptureIdle

\* the element is not found (or has no size): wait and poll again
PollFindsNothing ==
  /\ stablePc = "loop"
  /\ stableElapsed < stableTimeout
  /\ observed' = Append(observed, <<>>)
  /\ stableElapsed' = stableElapsed + 1
  /\ UNCHANGED <<stablePc, stableTimeout, lastY, stableCount>>
  /\ UNCHANGED beyondStable

\* the element is found: return at the fifth unchanged poll, otherwise wait
PollFindsRect ==
  /\ stablePc = "loop"
  /\ stableElapsed < stableTimeout
  /\ \E rect \in Rects \ {<<>>} :
       LET next == afterRect(lastY, stableCount, rect) IN
       /\ observed' = Append(observed, rect)
       /\ lastY' = next.lastY
       /\ stableCount' = next.stableCount
       /\ IF next.stableCount >= StableTarget
          THEN stablePc' = "stable" /\ stableElapsed' = stableElapsed
          ELSE stablePc' = "loop" /\ stableElapsed' = stableElapsed + 1
  /\ UNCHANGED stableTimeout
  /\ UNCHANGED beyondStable

\* the loop condition fails: the function returns
StableTimedOut ==
  /\ stablePc = "loop"
  /\ stableElapsed >= stableTimeout
  /\ stablePc' = "timed-out"
  /\ UNCHANGED <<stableTimeout, stableElapsed, lastY, stableCount, observed>>
  /\ UNCHANGED beyondStable

NextStable ==
  \/ PollFindsNothing
  \/ PollFindsRect
  \/ StableTimedOut

SpecStable == InitStable /\ [][NextStable]_vars

\* the polls that found the element, in order
FoundPolls == SelectSeq(observed, LAMBDA rect : rect # <<>>)

\* the last n entries of a sequence
LastOf(seq, n) == SubSeq(seq, Len(seq) - n + 1, Len(seq))

\* C25 (as claimed): an early return comes only after 5 consecutive polls
\* that saw the element with an unchanged top edge (within 1px); otherwise
\* the function polls on and returns only when the timeout has elapsed.
C25_StableAfterFiveConsecutive ==
  /\ stablePc = "stable" =>
       /\ Len(observed) >= StableTarget
       /\ \A k \in DOMAIN LastOf(observed, StableTarget) :
            /\ LastOf(observed, StableTarget)[k] # <<>>
            /\ abs(LastOf(observed, StableTarget)[k][1] - lastY[1]) < 2
  /\ stablePc = "timed-out" => stableElapsed >= stableTimeout

\* C25 (amended): an early return comes only after 5 polls that found the
\* element within 1px of the baseline (the poll that found it before them),
\* with no poll that found it elsewhere in between; polls that do not find
\* the element are passed over.  Otherwise the function returns only when
\* the timeout has elapsed.
C25_StableAfterFiveFound ==
  /\ stablePc = "stable" =>
       /\ Len(FoundPolls) >= StableTarget + 1
       /\ lastY = FoundPolls[Len(FoundPolls) - StableTarget]
       /\ \A k \in DOMAIN LastOf(FoundPolls, StableTarget) :
            abs(LastOf(FoundPolls, StableTarget)[k][1] - lastY[1]) < 2
  /\ stablePc = "timed-out" => stableElapsed >= stableTimeout
  /\ stablePc = "loop" => stableCount < StableTarget

\* the element went missing for one poll among the unchanged ones, and the
\* function has returned early all the same
C25_Witness ==
  /\ stablePc = "stable"
  /\ Len(observed) = StableTarget + 2
  /\ observed[StableTarget] = <<>>
  /\ Len(FoundPolls) = StableTarget + 1

(***************************************************************************)
(* The poll loops of the schedule flow: waitForDayButtons,                 *)
(* waitForTimeSlots and findTimeSlotsWithScroll.  Time is counted in       *)
(* waits (page.waitForTimeout(300)).                                       *)
(***************************************************************************)

maxScrolls == 12

TimedWaits == {"waitForDayButtons", "waitForTimeSlots"}

InitWait ==
  /\ \/ /\ waitKind \in TimedWaits
        /\ waitPc = "loop"
        /\ waitTimeout \in 1..MaxWaitTimeout
     \/ /\ waitKind = "findTimeSlotsWithScroll"
        /\ waitPc = "first-find"
        /\ waitTimeout = 0
  /\ waitElapsed = 0
  /\ waitResult = "none"
  /\ scrolls = 0
  /\ BookIdle
  /\ ClassifyIdle
  /\ ClickIdle
  /\ RunIdle
  /\ ClusterIdle
  /\ AttachIdle
  /\ LoginIdle
  /\ StableIdle
  /\ FillIdle
  /\ CaptureIdle

\* the poll finds the seven day buttons / a slot with the time: returned
WaitPollFinds ==
  /\ waitPc = "loop"
  /\ waitElapsed < waitTimeout
  /\ waitResult' = "found"
  /\ waitPc' = "returned"
  /\ UNCHANGED <<waitKind, waitTimeout, waitElapsed, scrolls>>
  /\ UNCHANGED beyondWait

\* the clock starts over whenever the timeout would be reached
WaitPollMissesClockWraps ==
  /\ waitPc = "loop"
  /\ waitElapsed < waitTimeout
  /\ waitElapsed' = (waitElapsed + 1) % waitTimeout
  /\ UNCHANGED <<waitKind, waitPc, waitTimeout, waitResult, scrolls>>
  /\ UNCHANGED beyondWait

\* the poll finds too little: waitForTimeout(300), then the loop test
WaitPollMisses ==
  /\ waitPc = "loop"
  /\ waitElapsed < waitTimeout
  /\ waitElapsed' = waitElapsed + 1
  /\ UNCHANGED <<waitKind, waitPc, waitTimeout, waitResult, scrolls>>
  /\ UNCHANGED beyondWait

\* the loop test fails: [] is returned
WaitTimedOut ==
  /\ waitPc = "loop"
  /\ waitElapsed >= waitTimeout
  /\ waitResult' = "empty"
  /\ waitPc' = "returned"
  /\ UNCHANGED <<waitKind, waitTimeout, waitElapsed, scrolls>>
  /\ UNCHANGED beyondWait

\* findTimeSlotsWithScroll: the search before any scrolling
FirstFind ==
  /\ waitPc = "first-find"
  /\ \E found \in BOOLEAN :
       IF found
       THEN waitResult' = "found" /\ waitPc' = "returned"
       ELSE waitResult' = waitResult /\ waitPc' = "scroll"
  /\ UNCHANGED <<waitKind, waitTimeout, waitElapsed, scrolls>>
  /\ UNCHANGED beyondWait

\* one scroll step: wheel, wait, search again
ScrollStep ==
  /\ waitPc = "scroll"
  /\ scrolls < maxScrolls
  /\ scrolls' = scrolls + 1
  /\ \E found \in BOOLEAN :
       IF found
       THEN waitResult' = "found" /\ waitPc' = "returned"
       ELSE waitResult' = waitResult /\ waitPc' = "scroll"
  /\ UNCHANGED <<waitKind, waitTimeout, waitElapsed>>
  /\ UNCHANGED beyondWait

\* maxScrolls steps were made without a match: [] is returned
ScrollGivesUp ==
  /\ waitPc = "scroll"
  /\ scrolls >= maxScrolls
  /\ waitResult' = "empty"
  /\ waitPc' = "returned"
  /\ UNCHANGED <<waitKind, waitTimeout, waitElapsed, scrolls>>
  /\ UNCHANGED beyondWait

NextWait ==
  \/ WaitPollFinds
  \/ WaitPollMisses
  \/ WaitTimedOut
  \/ FirstFind
  \/ ScrollStep
  \/ ScrollGivesUp

(***************************************************************************)
(* All the poll loops together, one call of one of them per behaviour.     *)
(* Every page call returns and the clock advances: a step that is          *)
(* possible is eventually taken.                                           *)
(***************************************************************************)

InitPoll == InitWait \/ InitStable \/ InitLogin

NextPoll == NextWait \/ NextStable \/ NextLogin

SpecPoll == InitPoll /\ [][NextPoll]_vars /\ WF_vars(NextPoll)

\* no poll loop is running any more
PollingOver ==
  /\ waitPc \in {"off", "returned"}
  /\ stablePc \in {"off", "stable", "timed-out"}
  /\ loginPc \in {"off", "returned", "saved", "thrown"}

\* C26: every poll loop ends.  waitForDayButtons and waitForTimeSlots
\* return an empty list only once their timeout has elapsed,
\* waitForStablePosition returns, waitForLoginSuccess returns or throws,
\* and findTimeSlotsWithScroll gives up with an empty list after exactly
\* maxScrolls scroll steps and never makes more.
C26_BoundedWaiting ==
  /\ <>PollingOver
  /\ []((waitKind \in TimedWaits /\ waitResult = "empty")
          => waitElapsed >= waitTimeout)
  /\ [](scrolls <= maxScrolls)
  /\ []((waitKind = "findTimeSlotsWithScroll" /\ waitResult = "empty")
          => scrolls = maxScrolls)

\* findTimeSlotsWithScroll has given up after all its scroll steps
C26_Witness ==
  /\ waitKind = "findTimeSlotsWithScroll"
  /\ waitPc = "returned"
  /\ waitResult = "empty"
  /\ scrolls = maxScrolls

\* the names of the steps of that flow whose action was invoked, in the
\* order of invocation
stepsInvoked(flow) ==
  LET mine == SelectSeq(invoked, LAMBDA e : e.flow = flow)
  IN  [i \in DOMAIN mine |-> mine[i].step]

\* C27: without --dry-run runFlow invokes the step actions in definition
\* order, each after the one before it has completed; once an action has
\* thrown no later step is invoked and the run is over with an error;
\* stepsCompleted is the number of steps whose action ran to its end.
C27_StepsInOrder ==
  /\ []((running # "none" /\ ~runOpts.dryRun) =>
          LET mine == stepsInvoked(running)
          IN  /\ Len(mine) <= Len(FlowSteps[running])
              /\ \A i \in DOMAIN mine : mine[i] = FlowSteps[running][i]
              /\ stepsCompleted =
                   IF runError = "step" THEN Len(mine) - 1 ELSE Len(mine))
  /\ [](runError = "step" => runPc = "exited" /\ exitCode = 1)
  /\ [][runError = "step" => invoked' = invoked]_vars
  /\ [][(invoked' # invoked /\ ~runOpts.dryRun) =>
          /\ Len(stepsInvoked(running)) = stepsCompleted
          /\ invoked' = Append(invoked,
               [flow |-> running, step |-> FlowSteps[running][stepsCompleted + 1]])]_vars

\* the third step of schedule-book has thrown after two completed steps
C27_Witness ==
  /\ running = "schedule-book"
  /\ runError = "step"
  /\ stepsCompleted = 2
  /\ Len(stepsInvoked("schedule-book")) = 3

(***************************************************************************)
(* The fill-credentials step of the login flow, typing by position.        *)
(***************************************************************************)

\* the default threshold of clusterSemanticsFields, in pixels
DefaultThreshold == 40

\* the fields findSemanticsTextFields can answer: at least 120 wide and 24
\* high; id stands for the element (its x, label and role)
LoginFieldBoxes ==
  [id : 1..MaxFillFields, y : {200, 239, 240, 280}, width : {120, 300},
   height : {24}]

InitFill ==
  /\ semanticFields \in SeqsUpTo(LoginFieldBoxes, MaxFillFields)
  /\ \A i \in DOMAIN semanticFields : semanticFields[i].id = i
  /\ fillPc = "found"
  /\ ordered = <<>>
  /\ emailInto = <<>>
  /\ passwordInto = <<>>
  /\ BookIdle
  /\ ClassifyIdle
  /\ ClickIdle
  /\ RunIdle
  /\ ClusterIdle
  /\ AttachIdle
  /\ LoginIdle
  /\ StableIdle
  /\ WaitIdle
  /\ CaptureIdle

\* what clusterSemanticsFields(semanticFields) returns
orderedFields ==
  LET cs == walk(sortByY(semanticFields), <<>>, DefaultThreshold)
  IN  [i \in DOMAIN cs |-> largest(cs[i].fields)]

\* two fields or more, in two rows or more: the email goes into ordered[0],
\* the password into ordered[1], and the step returns
FillByPosition ==
  /\ fillPc = "found"
  /\ Len(semanticFields) >= 2
  /\ Len(orderedFields) >= 2
  /\ ordered' = orderedFields
  /\ emailInto' = <<orderedFields[1]>>
  /\ passwordInto' = <<orderedFields[2]>>
  /\ fillPc' = "filled"
  /\ UNCHANGED semanticFields
  /\ UNCHANGED beyondFill

\* two fields or more, all in one row: ordered[1] is undefined; the email is
\* typed into ordered[0], then reading passwordField.x throws a TypeError
FillByPositionThrows ==
  /\ fillPc = "found"
  /\ Len(semanticFields) >= 2
  /\ Len(orderedFields) < 2
  /\ ordered' = orderedFields
  /\ emailInto' = <<orderedFields[1]>>
  /\ fillPc' = "thrown"
  /\ UNCHANGED <<semanticFields, passwordInto>>
  /\ UNCHANGED beyondFill

\* fewer than two fields: the fields are looked for by label; the step
\* returns when both were filled and throws otherwise
FillByLabel ==
  /\ fillPc = "found"
  /\ Len(semanticFields) < 2
  /\ fillPc' \in {"by-label", "thrown"}
  /\ UNCHANGED <<semanticFields, ordered, emailInto, passwordInto>>
  /\ UNCHANGED beyondFill

NextFill ==
  \/ FillByPosition
  \/ FillByPositionThrows
  \/ FillByLabel

SpecFill == InitFill /\ [][NextFill]_vars

\* C28: whenever fill-credentials types by position (two candidate fields
\* or more), the step returns with the email and the password typed into
\* two distinct fields, the email into the field of the upper row.
C28_DistinctFields ==
  (fillPc \notin {"off", "found"} /\ Len(semanticFields) >= 2) =>
    /\ fillPc = "filled"
    /\ emailInto # <<>>
    /\ passwordInto # <<>>
    /\ emailInto[1].id # passwordInto[1].id
    /\ emailInto[1].y < passwordInto[1].y

(***************************************************************************)
(* NetworkCapture and the capture steps of workout-week: responses fire    *)
(* while a step's action runs, their bodies are parsed asynchronously,     *)
(* runFlow flushes the buffer after each step.                             *)
(***************************************************************************)

\* the captureRules of a day step, in order: name and urlPattern; the
\* transform of step k tags the data with the day of step k
DayRules ==
  << [name |-> "workouts-week", urlPattern |-> "workout"],
     [name |-> "workout-history-week", urlPattern |-> "history"],
     [name |-> "week-raw", urlPattern |-> "*"] >>

RuleNames == {DayRules[i].name : i \in DOMAIN DayRules}

\* the responses: url and whether the content type is application/json
Responses ==
  { [url |-> "/api/workoutOfDay", json |-> TRUE],
    [url |-> "/api/history", json |-> TRUE],
    [url |-> "/api/profile", json |-> TRUE],
    [url |-> "/main.dart.js", json |-> FALSE] }

\* url.includes(pattern) for the urls and patterns above
urlIncludes(url, pattern) ==
  \/ pattern = "workout" /\ url = "/api/workoutOfDay"
  \/ pattern = "history" /\ url = "/api/history"

\* matchesRule: '*' matches every url; the rules name no method or status
matchesRule(rule, url) ==
  rule.urlPattern = "*" \/ urlIncludes(url, rule.urlPattern)

\* the names of the rules the response matches, in rule order; none when the
\* content type is not JSON
matching(response) ==
  IF ~response.json THEN <<>>
  ELSE LET hit == SelectSeq(DayRules, LAMBDA rule : matchesRule(rule, response.url))
       IN  [i \in DOMAIN hit |-> hit[i].name]

NoRecords == [name \in RuleNames |-> <<>>]

\* mergeCapture on records: a key not yet in the target takes the captured
\* array, a key already there has the captured records pushed behind its own
mergeCaptured(target, captured) ==
  [name \in RuleNames |-> target[name] \o captured[name]]

InitCapture ==
  /\ capPc = "constructed"
  /\ capStep = 0
  /\ capRules = 0
  /\ capBuffer = NoRecords
  /\ capData = NoRecords
  /\ pending = {}
  /\ fired = <<>>
  /\ BookIdle
  /\ ClassifyIdle
  /\ ClickIdle
  /\ RunIdle
  /\ ClusterIdle
  /\ AttachIdle
  /\ LoginIdle
  /\ StableIdle
  /\ WaitIdle
  /\ FillIdle

\* runFlow starts its first step: setRules, then the action runs
FirstStep ==
  /\ capPc = "constructed"
  /\ capStep' = 1
  /\ capRules' = 1
  /\ capPc' = "acting"
  /\ UNCHANGED <<capBuffer, capData, pending, fired>>
  /\ UNCHANGED beyondCapture

\* a response fires while the step's action runs: handleResponse runs up to
\* its first await with the rules installed at that moment
ResponseFires ==
  /\ capPc = "acting"
  /\ Len(fired) < MaxResponses
  /\ \E response \in Responses :
       LET id == Len(fired) + 1
       IN  /\ fired' = Append(fired, [id |-> id, response |-> response, step |-> capStep])
           /\ pending' =
                IF matching(response) = <<>> THEN pending
                ELSE pending \cup {[id |-> id, step |-> capRules, rest |-> matching(response)]}
  /\ UNCHANGED <<capPc, capStep, capRules, capBuffer, capData>>
  /\ UNCHANGED beyondCapture

\* response.json() resolves in one handleResponse call: the record, with the
\* transform of the rule the call holds, is pushed onto the buffer of that
\* moment; the call goes on to its next matching rule
BodyParsed ==
  /\ \E p \in pending :
       LET name == Head(p.rest)
           record == [id |-> p.id, day |-> p.step]
       IN  /\ capBuffer' = [capBuffer EXCEPT ![name] = Append(@, record)]
           /\ pending' =
                (pending \ {p}) \cup
                  (IF Tail(p.rest) = <<>> THEN {}
                   ELSE {[p EXCEPT !.rest = Tail(p.rest)]})
  /\ UNCHANGED <<capPc, capStep, capRules, capData, fired>>
  /\ UNCHANGED beyondCapture

\* the step's action returns: flush, mergeCapture; then the next step's
\* setRules, or the return of data after the last step
StepCompletes ==
  /\ capPc = "acting"
  /\ capData' = mergeCaptured(capData, capBuffer)
  /\ capBuffer' = NoRecords
  /\ IF capStep < MaxCaptureSteps
     THEN /\ capStep' = capStep + 1
          /\ capRules' = capStep + 1
          /\ capPc' = capPc
     ELSE /\ capPc' = "returned"
          /\ UNCHANGED <<capStep, capRules>>
  /\ UNCHANGED <<pending, fired>>
  /\ UNCHANGED beyondCapture

NextCapture ==
  \/ FirstStep
  \/ ResponseFires
  \/ BodyParsed
  \/ StepCompletes

SpecCapture == InitCapture /\ [][NextCapture]_vars

\* the places of the records of that response under that rule name
recordsOf(records, name, id) ==
  {i \in DOMAIN records[name] : records[name][i].id = id}

\* C29: once runFlow has returned, every JSON response fired during a step
\* that matches a capture rule of the step is in data exactly once under
\* the rule's name, with the transform of that step; and no record is ever
\* handed out by two flushes.
C29_CaptureComplete ==
  /\ capPc = "returned" =>
       \A f \in DOMAIN fired :
         \A name \in Range(matching(fired[f].response)) :
           /\ Cardinality(recordsOf(capData, name, fired[f].id)) = 1
           /\ \A i \in recordsOf(capData, name, fired[f].id) :
                capData[name][i].day = fired[f].step
  /\ capPc # "off" =>
       \A name \in RuleNames : \A f \in DOMAIN fired :
         Cardinality(recordsOf(capData, name, fired[f].id))
           + Cardinality(recordsOf(capBuffer, name, fired[f].id)) <= 1

\* C30: in one run of book-days every requested day is processed at most
\* once, also when --days repeats it; clickBookingAction is invoked at most
\* once for a processed slot; and every invocation makes at most one
\* pointer click.
C30_NoDoubleClick ==
  /\ [](\A i, j \in DOMAIN days : i # j => days[i] # days[j])
  /\ [][dayIdx' >= dayIdx]_vars
  /\ [][bookingCalls' # bookingCalls =>
          /\ bookingCalls' = bookingCalls + 1
          /\ pc = "details"
          /\ ~cur.clicked]_vars
  /\ [](bookingCalls <= evaluated)
  /\ [](/\ Len(pointerClicks) = bookingCalls
        /\ \A i \in DOMAIN pointerClicks : pointerClicks[i] <= 1)

\* --days mon,mon: the one day was processed and a booking action clicked
C30_Witness ==
  /\ params.days = joinDays(<<"mon", "mon">>)
  /\ days = <<"mon">>
  /\ pc = "done"
  /\ bookingCalls >= 1
  /\ pointerClicks[1] = 1

====
